---- MODULE Spec2Model ----
(***************************************************************************)
(* Model of the stend orchestration core: the event bridge                 *)
(* (core/bridge.py), the plugin engine (core/managers/skill_manager.py),   *)
(* and the two startup sequences (core/api_server.py, core/orchestrator.py)*)
(* Each component has its own next-state relation and specification; the   *)
(* variables of the components a specification does not drive keep their   *)
(* initial values.                                                         *)
(***************************************************************************)
EXTENDS Integers, Sequences, FiniteSets, TLC

\* ------------------------------------------------------------------ bounds
\* WebSocketApp objects one bridge creates (connection attempts)
MaxConn == 3
\* connection-loop threads of one bridge (calls of start())
MaxThreads == 1
\* frames that arrive on the connections of one bridge
MaxFrames == 2
\* calls of stop()
MaxStops == 2
\* files in the skills directory
MaxFiles == 2
\* events the bridge thread dispatches
MaxEvents == 2
\* invocations of lifecycle_start (each runs on a thread of its own)
MaxRuns == 2
\* files in the skills directory when the startup sequence is modelled
MaxLifeFiles == 1
\* calls of WebhookManager.trigger
MaxTriggers == 1
\* calls of RequestHandler.process_request
MaxRequests == 2
\* the timeout passed to wait_for_device, in seconds
MaxTimeout == 2
\* the argument passed to set_max_history_length
MaxHistoryArg == 2
\* entries the response cache is followed to beyond its limit
MaxCacheOver == 1

\* ------------------------------------------------------- program constants
\* RequestHandler.max_retries as __init__ sets it
DefaultMaxRetries == 3
\* ConversationManager.max_history_length as __init__ sets it
DefaultMaxHistoryLength == 10
\* the size above which _add_to_cache calls _clean_cache
CacheLimit == 100

VARIABLES
    \* ---- IrisBridge (core/bridge.py)
    keep_running,   \* self.keep_running
    ws,             \* self.ws: 0 is None, otherwise the id of a WebSocketApp
    wsSt,           \* per WebSocketApp: "none" | "created" | "open" | "closed"
    thr,            \* per loop thread: [pc, cur] (position in _run_loop, ws it runs)
    handed,         \* frames handed to on_message_callback so far
    handedStopped,  \* TRUE once a frame was handed while keep_running was False
    arrived,        \* frames that reached _on_message so far
    caughtErr,      \* TRUE once _on_message caught an exception
    closeSticks,    \* whether close() before run_forever keeps the object closed
    stopCalls,      \* calls of stop() so far
    stopRaised,     \* TRUE once a call of stop() raised
    lastOp,         \* the operation the last step belongs to
    \* ---- plugin engine (SkillManager, and load_skills/dispatch_message of
    \*      orchestrator.py)
    prog,           \* which of the two programs runs: "api_server" (with
                    \* SkillManager) | "orchestrator" (orchestrator.py)
    dirExists,      \* os.path.exists(skills_dir)
    dir,            \* os.listdir(skills_dir): a sequence of file names
    skills,         \* self.skills / SKILLS_MODULES: the list the attribute names now
    ld,             \* per caller of load_skills: [pc, i, names, old] (old: the
                    \* registry the call replaced)
    skills_active,  \* SYSTEM_STATUS["skills_active"] (the length of active_skills)
    dp,             \* the bridge thread's dispatch: [pc, cat, i, own, lst, cands]
                    \* (own/lst: it iterates a list object that was replaced;
                    \* cands: the complete registries at the time it began)
    seen,           \* units whose handler the current dispatch has invoked, in order
    evCount,        \* events dispatched so far
    dispatchRaised, \* TRUE once dispatch raised to its caller
    \* ---- startup sequence (lifecycle_start of api_server.py / orchestrator.py)
    android,        \* SYSTEM_STATUS["android"]
    androidBy,      \* the run that wrote SYSTEM_STATUS["android"] last (0: none)
    iris_bridge,    \* SYSTEM_STATUS["iris_bridge"]
    run,            \* per invocation: [pc, probe, deploy, did, loadRaised]
    bridgeObj,      \* the global bridge: 0 is None, otherwise the run that made it
    liveB,          \* the bridges whose keep_running is True, by the run that made them
    fwd,            \* the forward table of the adb server: a list of [local, remote]
    fwdCalls,       \* adb forward commands that succeeded so far
    \* ---- WebhookManager (extra_managers.py)
    webhooks,       \* self.webhooks: the list of registered URLs
    trg,            \* the calls of trigger() so far, each with its background
                    \* thread: [ev, atCall, pc, snap, i, flight, failedAt]
    \* ---- the event path of api_server.py (bridge -> dispatch -> plugins, webhooks)
    lastFrame,      \* the frame that arrived last
    inv,            \* the units whose handler was invoked for it, in order
    trigBy,         \* the event names webhooks.trigger was called with for it
    dispatchErr,    \* TRUE when the dispatch callback caught an exception on it
    \* ---- StendStore (store_manager.py) and SharedStateManager (extra_managers.py)
    store,          \* the table of stend_store.db: per key the stored text, or Absent
    lastVal,        \* per key the value of the last put not followed by a delete
    shared,         \* SharedStateManager.state: per key a value, or NoVal
    got,            \* the last call of StendStore.get: [k, v] (key, returned value)
    lostShared,     \* TRUE once a process restart dropped a non-empty shared state
    \* ---- RequestHandler (request_handler.py)
    rq,             \* the call of process_request: [pc, retries, attempts, retry,
                    \* last, result]
    request_count,  \* self.request_count
    error_count,    \* self.error_count
    max_retries,    \* self.max_retries
    \* ---- AdbManager (managers/adb.py)
    wd,             \* the call of wait_for_device: [pc, timeout, elapsed, pollAt,
                    \* polls, sawReady, ret] (times in seconds since its start)
    adbCall,        \* the last call of run(): [out, ret, raised, printed]
    irisCall,       \* the last call of start_iris_process: [push, launch, pid, ret]
    \* ---- SharedStateManager under concurrent callers (extra_managers.py)
    lock,           \* self._lock: the caller that holds it, or "free"
    call,           \* per caller its call: [pc, op, k, v, ret, raised]
    snap,           \* the dict the last get_all returned: [alias, d], alias TRUE
                    \* when it is the object self.state itself
    linState,       \* per key the value of the latest set not followed by a
                    \* delete, in the order in which the calls took effect
    \* ---- ConversationManager, ResponseGenerator (conversation.py,
    \* response_generator.py)
    conversation_history,  \* self.conversation_history: the roles of its messages
    max_history_length,    \* self.max_history_length
    response_cache         \* self.response_cache: [fresh, old], the number of
                           \* entries whose timestamp is at most cache_ttl old
                           \* and the number of older ones

bridgeVars == <<keep_running, ws, wsSt, thr, handed, handedStopped, arrived, caughtErr, closeSticks,
                stopCalls, stopRaised>>

skillVars == <<prog, dirExists, dir, skills, ld, skills_active, dp, seen, evCount,
               dispatchRaised>>

lifeVars == <<android, androidBy, iris_bridge, run, bridgeObj, liveB, fwd, fwdCalls>>

hookVars == <<webhooks, trg>>

eventVars == <<lastFrame, inv, trigBy, dispatchErr>>

storeVars == <<store, lastVal, shared, got, lostShared>>

reqVars == <<rq, request_count, error_count, max_retries>>

adbVars == <<wd, adbCall, irisCall>>

lockVars == <<lock, call, snap, linState>>

gemVars == <<conversation_history, max_history_length, response_cache>>

dataVars == <<storeVars, reqVars, adbVars, lockVars, gemVars>>

\* the state of the managers that the bridge, the plugin engine and the startup
\* sequence do not touch
appVars == <<hookVars, eventVars, dataVars>>

vars == <<keep_running, ws, wsSt, thr, handed, handedStopped, arrived, caughtErr, closeSticks,
          stopCalls, stopRaised, lastOp,
          prog, dirExists, dir, skills, ld, skills_active, dp, seen, evCount,
          dispatchRaised,
          android, androidBy, iris_bridge, run, bridgeObj, liveB, fwd, fwdCalls,
          webhooks, trg,
          lastFrame, inv, trigBy, dispatchErr,
          store, lastVal, shared, got, lostShared,
          rq, request_count, error_count, max_retries,
          wd, adbCall, irisCall,
          lock, call, snap, linState,
          conversation_history, max_history_length, response_cache>>

\* ================================================================= IrisBridge
ConnIds == 1..MaxConn
Threads == 1..MaxThreads

\* the loop threads of one bridge on which start() is called once more
ThreadSlots == 1..(MaxThreads + 1)

\* IrisBridge.__init__
BridgeInit ==
    /\ keep_running = FALSE
    /\ ws = 0
    /\ wsSt = [c \in ConnIds |-> "none"]
    /\ thr = [t \in ThreadSlots |-> [pc |-> "none", cur |-> 0]]
    /\ handed = 0
    /\ handedStopped = FALSE
    /\ arrived = 0
    /\ caughtErr = FALSE
    /\ closeSticks \in BOOLEAN
    /\ stopCalls = 0
    /\ stopRaised = FALSE
    /\ lastOp = "init"

\* number of WebSocketApp objects created so far
Created == Cardinality({c \in ConnIds : wsSt[c] # "none"})

\* IrisBridge.start: sets the flag and spawns one more loop thread
BridgeStart(t) ==
    /\ thr[t].pc = "none"
    /\ \A u \in ThreadSlots : u < t => thr[u].pc # "none"
    /\ keep_running' = TRUE
    /\ thr' = [thr EXCEPT ![t].pc = "check"]
    /\ lastOp' = "start"
    /\ UNCHANGED <<ws, wsSt, handed, handedStopped, arrived, caughtErr, closeSticks, stopCalls, stopRaised>>
    /\ UNCHANGED <<skillVars, lifeVars, appVars>>

\* _run_loop, line 21: while self.keep_running
LoopCheck(t) ==
    /\ thr[t].pc = "check"
    /\ thr' = [thr EXCEPT ![t].pc = IF keep_running THEN "create" ELSE "exited"]
    /\ lastOp' = "loop"
    /\ UNCHANGED <<keep_running, ws, wsSt, handed, handedStopped, arrived, caughtErr, closeSticks, stopCalls, stopRaised>>
    /\ UNCHANGED <<skillVars, lifeVars, appVars>>

\* _run_loop, lines 23-29: self.ws = websocket.WebSocketApp(...)
LoopCreate(t) ==
    /\ thr[t].pc = "create"
    /\ Created < MaxConn
    /\ ws' = Created + 1
    /\ wsSt' = [wsSt EXCEPT ![Created + 1] = "created"]
    /\ thr' = [thr EXCEPT ![t].pc = "run"]
    /\ lastOp' = "loop"
    /\ UNCHANGED <<keep_running, handed, handedStopped, arrived, caughtErr, closeSticks, stopCalls, stopRaised>>
    /\ UNCHANGED <<skillVars, lifeVars, appVars>>

\* _run_loop, line 30: self.ws.run_forever() starts on the object self.ws names
\* now. The attempt connects (on_open), or fails (on_error, or an exception the
\* loop catches); on an object that is already closed or already running it
\* returns or raises at once.
LoopRun(t) ==
    /\ thr[t].pc = "run"
    /\ ws # 0
    /\ lastOp' = "loop"
    /\ \/ /\ wsSt[ws] = "created"
          /\ wsSt' = [wsSt EXCEPT ![ws] = "open"]
          /\ thr' = [thr EXCEPT ![t] = [pc |-> "running", cur |-> ws]]
       \/ /\ wsSt[ws] = "created"
          /\ wsSt' = [wsSt EXCEPT ![ws] = "closed"]
          /\ thr' = [thr EXCEPT ![t] = [pc |-> "after", cur |-> 0]]
       \/ /\ wsSt[ws] \in {"open", "closed"}
          /\ wsSt' = wsSt
          /\ thr' = [thr EXCEPT ![t] = [pc |-> "after", cur |-> 0]]
    /\ UNCHANGED <<keep_running, ws, handed, handedStopped, arrived, caughtErr, closeSticks, stopCalls, stopRaised>>
    /\ UNCHANGED <<skillVars, lifeVars, appVars>>

\* the kinds of frame that reach _on_message: its text parses and the callback
\* returns, its text parses and the callback raises, its text is not JSON
FrameKinds == {"ok", "callback_raises", "unparsable"}

\* an _on_message without the try/except
OnMessageErrorEscapes == FALSE

\* _on_message, lines 42 and 46: the try/except around json.loads and the
\* callback
OnMessageCatches == TRUE

\* _on_message (lines 41-47): a frame arrives on the open connection; its text
\* is parsed and the result handed to the callback; a parse error or a callback
\* exception is caught and printed. An exception that escaped would end
\* run_forever.
OnMessage(t, kind) ==
    /\ thr[t].pc = "running"
    /\ wsSt[thr[t].cur] = "open"
    /\ arrived < MaxFrames
    /\ arrived' = arrived + 1
    /\ handed' = IF kind = "unparsable" THEN handed ELSE handed + 1
    /\ handedStopped' = (handedStopped \/ (kind # "unparsable" /\ ~keep_running))
    /\ lastOp' = IF kind = "ok" THEN "frame" ELSE "frame_" \o kind
    /\ IF kind = "ok"
       THEN UNCHANGED <<caughtErr, wsSt, thr>>
       ELSE IF OnMessageCatches
            THEN /\ caughtErr' = TRUE
                 /\ UNCHANGED <<wsSt, thr>>
            ELSE /\ wsSt' = [wsSt EXCEPT ![thr[t].cur] = "closed"]
                 /\ thr' = [thr EXCEPT ![t] = [pc |-> "after", cur |-> 0]]
                 /\ UNCHANGED caughtErr
    /\ UNCHANGED <<keep_running, ws, closeSticks, stopCalls, stopRaised>>
    /\ UNCHANGED <<skillVars, lifeVars, appVars>>

\* run_forever returns: the connection failed or was closed by the remote side
\* (_on_error / _on_close), or close() ended it.
RunReturns(t) ==
    /\ thr[t].pc = "running"
    /\ wsSt' = [wsSt EXCEPT ![thr[t].cur] = "closed"]
    /\ thr' = [thr EXCEPT ![t] = [pc |-> "after", cur |-> 0]]
    /\ lastOp' = IF wsSt[thr[t].cur] = "open" THEN "lost" ELSE "loop"
    /\ UNCHANGED <<keep_running, ws, handed, handedStopped, arrived, caughtErr, closeSticks, stopCalls, stopRaised>>
    /\ UNCHANGED <<skillVars, lifeVars, appVars>>

\* a loop that gives up after two connection attempts
AfterTargetCapped(flag) == IF flag /\ Created < 2 THEN "sleep" ELSE "exited"

\* where the loop goes from line 34, given the flag it reads there
AfterTarget(flag) == IF flag THEN "sleep" ELSE "check"

\* _run_loop, lines 34-36: if self.keep_running: sleep(3)
LoopAfter(t) ==
    /\ thr[t].pc = "after"
    /\ thr' = [thr EXCEPT ![t].pc = AfterTarget(keep_running)]
    /\ lastOp' = "loop"
    /\ UNCHANGED <<keep_running, ws, wsSt, handed, handedStopped, arrived, caughtErr, closeSticks, stopCalls, stopRaised>>
    /\ UNCHANGED <<skillVars, lifeVars, appVars>>

\* the 3 s delay is over: back to the while test
LoopWake(t) ==
    /\ thr[t].pc = "sleep"
    /\ thr' = [thr EXCEPT ![t].pc = "check"]
    /\ lastOp' = "loop"
    /\ UNCHANGED <<keep_running, ws, wsSt, handed, handedStopped, arrived, caughtErr, closeSticks, stopCalls, stopRaised>>
    /\ UNCHANGED <<skillVars, lifeVars, appVars>>

\* stop() without the guard in front of close()
StopClosesUnguarded(w) == TRUE

\* stop, line 57: the guard in front of self.ws.close()
StopCloses(w) == w # 0

\* IrisBridge.stop (lines 55-58). close() ends an open connection; on an object
\* whose run_forever has not started yet it marks it closed (closeSticks) or is
\* forgotten when run_forever starts, whichever the websocket library does; on
\* a closed object it does nothing.
\* Without the guard, close() on None raises AttributeError.
BridgeStop ==
    /\ stopCalls < MaxStops
    /\ stopCalls' = stopCalls + 1
    /\ keep_running' = FALSE
    /\ lastOp' = "stop"
    /\ IF StopCloses(ws)
       THEN /\ stopRaised' = (stopRaised \/ ws = 0)
            /\ IF ws = 0 THEN wsSt' = wsSt
               ELSE \/ /\ wsSt[ws] = "open"
                       /\ wsSt' = [wsSt EXCEPT ![ws] = "closed"]
                    \/ /\ wsSt[ws] = "created"
                       /\ wsSt' = IF closeSticks THEN [wsSt EXCEPT ![ws] = "closed"]
                                  ELSE wsSt
                    \/ /\ wsSt[ws] = "closed"
                       /\ wsSt' = wsSt
       ELSE UNCHANGED <<wsSt, stopRaised>>
    /\ UNCHANGED <<ws, thr, handed, handedStopped, arrived, caughtErr, closeSticks>>
    /\ UNCHANGED <<skillVars, lifeVars, appVars>>

BridgeThreadStep(t) ==
    \/ LoopCheck(t)
    \/ LoopCreate(t)
    \/ LoopRun(t)
    \/ LoopAfter(t)
    \/ LoopWake(t)


\* ============================================================== plugin engine
Files == {"a.py", "b.py", "c.py", "bad.py", "__init__.py"}

\* filename.endswith(".py")
EndsWithPy(f) == f \in {"a.py", "b.py", "c.py", "bad.py", "__init__.py"}

\* f.startswith("__")
StartsWithUnderscores(f) == f = "__init__.py"

\* filename[:-3]
SkillName(f) ==
    CASE f = "a.py" -> "a"
      [] f = "b.py" -> "b"
      [] f = "c.py" -> "c"
      [] f = "bad.py" -> "bad"
      [] OTHER -> "__init__"

Units == {"a", "b", "c", "bad"}

\* spec.loader.exec_module(mod) raises for this file
ExecRaises(f) == f = "bad.py"

\* hasattr(skill, "on_message") / hasattr(skill, "on_stend_event")
HasHandler(u, cat) ==
    \/ cat = "message" /\ u \in {"a", "b"}
    \/ cat = "stend_event" /\ u \in {"a", "b", "c"}

\* the unit's handler raises on every event
HandlerRaises(u, cat) == u = "a"

\* the callers of load_skills: the reload command (api_server.py line 163,
\* orchestrator.py line 94); loads do not overlap one another here
Loaders == {"reload"}

\* the callers of load_skills that can run at once in api_server.py: the
\* reload command and the thread of lifecycle_start
LoaderSlots == {"reload", "start"}

\* the directories: file names without repetition
RECURSIVE SeqsUpTo(_)
SeqsUpTo(n) ==
    IF n = 0 THEN {<<>>}
    ELSE LET shorter == SeqsUpTo(n - 1)
         IN shorter \cup {Append(q, f) : q \in {x \in shorter : Len(x) = n - 1},
                                           f \in Files}

NoRepeat(q) == \A i, j \in 1..Len(q) : i # j => q[i] # q[j]

Dirs == {q \in SeqsUpTo(MaxFiles) : NoRepeat(q)}

SkillsInit ==
    /\ prog \in {"api_server", "orchestrator"}
    /\ dirExists \in BOOLEAN
    /\ dir \in Dirs
    /\ ~dirExists => dir = <<>>
    /\ skills = <<>>
    /\ ld = [l \in LoaderSlots |-> [pc |-> "idle", i |-> 0, names |-> <<>>, old |-> <<>>]]
    /\ skills_active = 0
    /\ dp = [pc |-> "idle", cat |-> "message", i |-> 0, own |-> FALSE, lst |-> <<>>,
             cands |-> {}]
    /\ seen = <<>>
    /\ evCount = 0
    /\ dispatchRaised = FALSE

LoadersIdle == \A l \in Loaders : ld[l].pc # "loop"

\* q without its i-th element
RemoveAt(q, i) == [j \in 1..(Len(q) - 1) |-> IF j < i THEN q[j] ELSE q[j + 1]]

\* the operator deletes a file of the skills directory (between loads)
RemoveFile(i) ==
    /\ LoadersIdle
    /\ i \in 1..Len(dir)
    /\ dir' = RemoveAt(dir, i)
    /\ lastOp' = "chdir"
    /\ UNCHANGED <<prog, dirExists, skills, ld, skills_active, dp, seen, evCount,
                   dispatchRaised>>
    /\ UNCHANGED <<bridgeVars, lifeVars, appVars>>

\* the file filter of the two loaders: skill_manager.py line 18,
\* orchestrator.py line 38
IsCandidate(f) ==
    IF prog = "api_server" THEN EndsWithPy(f) /\ f # "__init__.py"
    ELSE EndsWithPy(f) /\ ~StartsWithUnderscores(f)

\* a load that goes on with the list the registry held
RegistryKept(old) == old

\* skill_manager.py line 11 (self.skills = []), orchestrator.py line 32
\* (SKILLS_MODULES = []): the list the registry names when a load starts
RegistryAtLoadStart(old) == <<>>

\* load_skills, first statements: the attribute is bound to a new empty list
\* (a dispatch that iterates the old list keeps the old list object), the
\* directory is tested and listed. SkillManager creates a missing directory and
\* returns []; orchestrator.py skips the loop.
LoadBegin(l) ==
    /\ ld[l].pc # "loop"
    /\ skills' = RegistryAtLoadStart(skills)
    /\ dp' = IF dp.pc = "iter" /\ ~dp.own
             THEN [dp EXCEPT !.own = TRUE, !.lst = skills]
             ELSE dp
    /\ IF dirExists
       THEN /\ ld' = [ld EXCEPT ![l] = [pc |-> "loop", i |-> 1, names |-> <<>>,
                                        old |-> skills]]
            /\ UNCHANGED <<dirExists, skills_active>>
       ELSE /\ ld' = [ld EXCEPT ![l] = [pc |-> "done", i |-> 0, names |-> <<>>,
                                        old |-> skills]]
            /\ dirExists' = (prog = "api_server")
            /\ skills_active' = 0
    /\ lastOp' = "load"
    /\ UNCHANGED <<prog, dir, seen, evCount, dispatchRaised>>
    /\ UNCHANGED <<bridgeVars, lifeVars, appVars>>

\* whether an exception of exec_module is caught per file:
\* orchestrator.py lines 41-50 has the try/except, skill_manager.py has none
LoadCatches == prog = "orchestrator"

\* whether a loaded module is registered: orchestrator.py line 45 registers
\* only modules with on_message, skill_manager.py registers every module
Registers(u) == prog = "api_server" \/ HasHandler(u, "message")

\* what one iteration of the for loop does with file f: "skip" it, "raise"
\* out of load_skills, or "register" the module
FileOutcome(f) ==
    IF ~IsCandidate(f) THEN "skip"
    ELSE IF ExecRaises(f) THEN (IF LoadCatches THEN "skip" ELSE "raise")
    ELSE IF Registers(SkillName(f)) THEN "register"
    ELSE "skip"

\* load_skills, one iteration of the for loop, or the statements after it
LoadStep(l) ==
    /\ ld[l].pc = "loop"
    /\ lastOp' = "load"
    /\ IF ld[l].i > Len(dir)
       THEN \* return loaded_names; the caller records the count
            /\ ld' = [ld EXCEPT ![l].pc = "done"]
            /\ skills_active' = Len(ld[l].names)
            /\ UNCHANGED skills
       ELSE LET f == dir[ld[l].i]
                u == SkillName(f)
            IN  CASE FileOutcome(f) = "skip" ->
                       /\ ld' = [ld EXCEPT ![l].i = @ + 1]
                       /\ UNCHANGED <<skills, skills_active>>
                  [] FileOutcome(f) = "raise" ->
                       /\ ld' = [ld EXCEPT ![l].pc = "raised"]
                       /\ UNCHANGED <<skills, skills_active>>
                  [] FileOutcome(f) = "register" ->
                       /\ skills' = Append(skills, u)
                       /\ ld' = [ld EXCEPT ![l].i = @ + 1, ![l].names = Append(@, u)]
                       /\ UNCHANGED skills_active
    /\ UNCHANGED <<prog, dirExists, dir, dp, seen, evCount, dispatchRaised>>
    /\ UNCHANGED <<bridgeVars, lifeVars, appVars>>

\* a whole call of load_skills on listing d, from file i on with acc loaded:
\* the names loaded and whether the call raised
RECURSIVE LoadFrom(_, _, _)
LoadFrom(d, i, acc) ==
    IF i > Len(d) THEN [names |-> acc, raised |-> FALSE]
    ELSE CASE FileOutcome(d[i]) = "skip" -> LoadFrom(d, i + 1, acc)
           [] FileOutcome(d[i]) = "raise" -> [names |-> acc, raised |-> TRUE]
           [] FileOutcome(d[i]) = "register" ->
                LoadFrom(d, i + 1, Append(acc, SkillName(d[i])))

\* the names load_skills is to return for a directory listing: the candidate
\* files whose module loads, in listing order
RECURSIVE ValidNames(_)
ValidNames(d) ==
    IF d = <<>> THEN <<>>
    ELSE LET f == d[Len(d)]
             front == ValidNames(SubSeq(d, 1, Len(d) - 1))
         IN  IF EndsWithPy(f) /\ f # "__init__.py" /\ ~ExecRaises(f)
             THEN Append(front, SkillName(f))
             ELSE front

\* the complete plugin sets there are now: the registry, or while a load runs
\* the set it replaced and the set it is to load
CompleteRegistries ==
    IF \E l \in Loaders : ld[l].pc = "loop"
    THEN UNION {{ld[l].old, ValidNames(dir)} : l \in {k \in Loaders : ld[k].pc = "loop"}}
    ELSE {skills}

\* the list object the running dispatch iterates
DispatchList == IF dp.own THEN dp.lst ELSE skills

\* a bridge that hands the next frame to the callback at any time
ReceiveLoopAlwaysFree == TRUE

\* the receive loop of the one bridge thread calls _on_message for the next
\* frame only when the call for the frame before has returned (bridge.py lines
\* 41-47: the callback is called in _on_message, on the loop thread)
ReceiveLoopFree == dp.pc # "iter"

\* dispatch / dispatch_message is entered for the next event: for ... in
\* self.skills takes an iterator over the list the attribute names now
DispatchBegin(cat) ==
    /\ ReceiveLoopFree
    /\ evCount < MaxEvents
    /\ prog = "orchestrator" => cat = "message"
    /\ evCount' = evCount + 1
    /\ dp' = [pc |-> "iter", cat |-> cat, i |-> 1, own |-> FALSE, lst |-> <<>>,
              cands |-> CompleteRegistries]
    /\ seen' = <<>>
    /\ lastOp' = "dispatch"
    /\ UNCHANGED <<prog, dirExists, dir, skills, ld, skills_active,
                   dispatchRaised>>
    /\ UNCHANGED <<bridgeVars, lifeVars, appVars>>

\* a dispatch in which a handler's exception is not caught
HandlerErrorPropagates == FALSE

\* the try/except around each handler call: skill_manager.py lines 33-39,
\* orchestrator.py lines 73-76
HandlerErrorCaught == TRUE

\* a dispatch that calls whichever handler the unit has
HandlerCalledAny(u, cat) ==
    IF HasHandler(u, "message") THEN "on_message"
    ELSE IF HasHandler(u, "stend_event") THEN "on_stend_event"
    ELSE "none"

\* the handler dispatch calls on a unit for the category, "none" when it calls
\* none: skill_manager.py lines 34-37 test the category and hasattr,
\* dispatch_message (orchestrator.py line 74) calls on_message of every
\* registered module
HandlerCalled(u, cat) ==
    IF prog = "api_server"
    THEN IF cat = "message" /\ HasHandler(u, "message") THEN "on_message"
         ELSE IF cat = "stend_event" /\ HasHandler(u, "stend_event")
              THEN "on_stend_event"
              ELSE "none"
    ELSE "on_message"

\* whether dispatch calls a handler of the unit for the category
CallsHandler(u, cat) == HandlerCalled(u, cat) # "none"

\* one iteration of the for loop of dispatch, or its end
DispatchStep ==
    /\ dp.pc = "iter"
    /\ lastOp' = "dispatch"
    /\ IF dp.i > Len(DispatchList)
       THEN /\ dp' = [dp EXCEPT !.pc = "done"]
            /\ UNCHANGED <<seen, dispatchRaised>>
       ELSE LET u == DispatchList[dp.i]
            IN  IF ~CallsHandler(u, dp.cat)
                THEN /\ dp' = [dp EXCEPT !.i = @ + 1]
                     /\ UNCHANGED <<seen, dispatchRaised>>
                ELSE /\ seen' = Append(seen, u)
                     /\ IF (HandlerRaises(u, dp.cat) \/ ~HasHandler(u, dp.cat))
                           /\ ~HandlerErrorCaught
                        THEN /\ dp' = [dp EXCEPT !.pc = "raised"]
                             /\ dispatchRaised' = TRUE
                        ELSE /\ dp' = [dp EXCEPT !.i = @ + 1]
                             /\ UNCHANGED dispatchRaised
    /\ UNCHANGED <<prog, dirExists, dir, skills, ld, skills_active, evCount>>
    /\ UNCHANGED <<bridgeVars, lifeVars, appVars>>

\* load_skills called by the reload command and by lifecycle_start, the calls
\* overlapping or not
NextLoads ==
    \/ \E l \in LoaderSlots : LoadBegin(l)
    \/ \E l \in LoaderSlots : LoadStep(l)

NextSkills ==
    \/ \E i \in 1..MaxFiles : RemoveFile(i)
    \/ \E l \in Loaders : LoadBegin(l)
    \/ \E l \in Loaders : LoadStep(l)
    \/ \E cat \in {"message", "stend_event"} : DispatchBegin(cat)
    \/ DispatchStep


\* ============================================================ startup sequence
Runs == 1..MaxRuns

LifeInit ==
    /\ android = "unknown"
    /\ androidBy = 0
    /\ iris_bridge = "disconnected"
    /\ run = [r \in Runs |-> [pc |-> "idle", probe |-> "none", deploy |-> "none",
                              did |-> {}, loadRaised |-> FALSE]]
    /\ bridgeObj = 0
    /\ liveB = {}
    /\ fwd = <<>>
    /\ fwdCalls = 0

\* what a step of the startup sequence leaves alone
LifeFrame ==
    /\ UNCHANGED bridgeVars
    /\ UNCHANGED appVars
    /\ UNCHANGED <<prog, dir, ld, dp, seen, evCount, dispatchRaised>>

\* lifecycle_start is invoked on a new thread (startup_event, /api/control/start;
\* __main__, /api/control/start_android) and writes "connecting"
\* a forward table to which every command adds a line
AdbForwardAppends(tbl, l, r) == Append(tbl, [local |-> l, remote |-> r])

\* adb forward tcp:l tcp:r on the table of the adb server: the entry of local
\* port l is set to r, a new line only when l has none
AdbForward(tbl, l, r) ==
    IF \E i \in 1..Len(tbl) : tbl[i].local = l
    THEN [i \in 1..Len(tbl) |->
             IF tbl[i].local = l THEN [local |-> l, remote |-> r] ELSE tbl[i]]
    ELSE Append(tbl, [local |-> l, remote |-> r])

\* AdbManager.setup_port_forward (adb.py lines 71-73): one adb forward command
\* through run(), which returns None when the command fails (lines 10-20) and
\* keeps nothing in the manager
SetupPortForward(l, r, ok) ==
    /\ fwd' = IF ok THEN AdbForward(fwd, l, r) ELSE fwd
    /\ fwdCalls' = IF ok THEN fwdCalls + 1 ELSE fwdCalls

LifeStart(r) ==
    /\ run[r].pc = "idle"
    /\ \A q \in Runs : q < r => run[q].pc # "idle"
    /\ android' = "connecting"
    /\ androidBy' = r
    /\ run' = [run EXCEPT ![r].pc = "probe"]
    /\ lastOp' = "life"
    /\ UNCHANGED <<iris_bridge, bridgeObj, liveB, skills, skills_active, dirExists>>
    /\ UNCHANGED <<fwd, fwdCalls>>
    /\ LifeFrame

\* a startup sequence that goes on to deploy after a probe timeout
AfterProbeTimeoutGoesOn == "deploy"

\* api_server.py: where the sequence goes after a probe timeout (line 94: return)
AfterProbeTimeout == "done"

\* api_server.py lines 90-94: wait_for_device(timeout=15) returns ok
ApiProbe(r, ok) ==
    /\ prog = "api_server"
    /\ run[r].pc = "probe"
    /\ lastOp' = "life"
    /\ IF ok
       THEN /\ run' = [run EXCEPT ![r].pc = "deploy", ![r].probe = "ok"]
            /\ UNCHANGED <<android, androidBy>>
       ELSE /\ run' = [run EXCEPT ![r].pc = AfterProbeTimeout, ![r].probe = "timeout"]
            /\ android' = "error"
            /\ androidBy' = r
    /\ UNCHANGED <<iris_bridge, bridgeObj, liveB, skills, skills_active, dirExists>>
    /\ UNCHANGED <<fwd, fwdCalls>>
    /\ LifeFrame

\* api_server.py lines 96-107: the payload exists or not, start_iris_process
\* returns whether a process id was found; the sequence goes on in every case
ApiDeploy(r, apk, pid) ==
    /\ prog = "api_server"
    /\ run[r].pc = "deploy"
    /\ lastOp' = "life"
    /\ android' = IF apk /\ pid THEN "running" ELSE "error"
    /\ androidBy' = r
    /\ run' = [run EXCEPT ![r].pc = "forward",
                          ![r].deploy = IF apk /\ pid THEN "ok" ELSE "fail"]
    /\ UNCHANGED <<iris_bridge, bridgeObj, liveB, skills, skills_active, dirExists>>
    /\ UNCHANGED <<fwd, fwdCalls>>
    /\ LifeFrame

\* api_server.py lines 109-111: adb.setup_port_forward(3000, 3000)
ApiForward(r) ==
    /\ prog = "api_server"
    /\ run[r].pc = "forward"
    /\ lastOp' = "life"
    /\ run' = [run EXCEPT ![r].pc = "load", ![r].did = @ \cup {"forward"}]
    /\ \E ok \in BOOLEAN : SetupPortForward(3000, 3000, ok)
    /\ UNCHANGED <<android, androidBy, iris_bridge, bridgeObj, liveB, skills,
                   skills_active, dirExists>>
    /\ LifeFrame

\* api_server.py lines 113-116 and 147-149: skills.load_skills() as one call;
\* an exception of it reaches the except clause of lifecycle_start
ApiLoad(r) ==
    /\ prog = "api_server"
    /\ run[r].pc = "load"
    /\ lastOp' = "life"
    /\ LET out == IF dirExists THEN LoadFrom(dir, 1, <<>>)
                  ELSE [names |-> <<>>, raised |-> FALSE]
       IN  /\ skills' = out.names
           /\ dirExists' = TRUE
           /\ IF out.raised
              THEN /\ android' = "error"
                   /\ androidBy' = r
                   /\ run' = [run EXCEPT ![r].pc = "done", ![r].did = @ \cup {"load"},
                                         ![r].loadRaised = TRUE]
                   /\ UNCHANGED skills_active
              ELSE /\ skills_active' = Len(out.names)
                   /\ run' = [run EXCEPT ![r].pc = "bridge", ![r].did = @ \cup {"load"}]
                   /\ UNCHANGED <<android, androidBy>>
    /\ UNCHANGED <<iris_bridge, bridgeObj, liveB>>
    /\ UNCHANGED <<fwd, fwdCalls>>
    /\ LifeFrame

\* api_server.py lines 142-145: a new IrisBridge is made and started, the old
\* one is left as it is, and the status says "connected"
ApiBridge(r) ==
    /\ prog = "api_server"
    /\ run[r].pc = "bridge"
    /\ lastOp' = "life"
    /\ bridgeObj' = r
    /\ liveB' = liveB \cup {r}
    /\ iris_bridge' = "connected"
    /\ run' = [run EXCEPT ![r].pc = "done", ![r].did = @ \cup {"bridge"}]
    /\ UNCHANGED <<android, androidBy, skills, skills_active, dirExists>>
    /\ UNCHANGED <<fwd, fwdCalls>>
    /\ LifeFrame

\* orchestrator.py lines 111-114: fast_connect, wait_for_device() returns ok,
\* which is not looked at, and the status says "connected"
OrchProbe(r, ok) ==
    /\ prog = "orchestrator"
    /\ run[r].pc = "probe"
    /\ lastOp' = "life"
    /\ android' = "connected"
    /\ androidBy' = r
    /\ run' = [run EXCEPT ![r].pc = "forward",
                          ![r].probe = IF ok THEN "ok" ELSE "timeout"]
    /\ UNCHANGED <<iris_bridge, bridgeObj, liveB, skills, skills_active, dirExists>>
    /\ UNCHANGED <<fwd, fwdCalls>>
    /\ LifeFrame

\* orchestrator.py lines 120-123: setup_port_forward, then start_iris_service
\* returns whether a process id was found
OrchDeploy(r, pid) ==
    /\ prog = "orchestrator"
    /\ run[r].pc = "forward"
    /\ lastOp' = "life"
    /\ android' = IF pid THEN "running_app" ELSE android
    /\ androidBy' = IF pid THEN r ELSE androidBy
    /\ run' = [run EXCEPT ![r].pc = "bridge", ![r].did = @ \cup {"forward"},
                          ![r].deploy = IF pid THEN "ok" ELSE "fail"]
    /\ \E ok \in BOOLEAN : SetupPortForward(3000, 3000, ok)
    /\ UNCHANGED <<iris_bridge, bridgeObj, liveB, skills, skills_active, dirExists>>
    /\ LifeFrame

\* orchestrator.py lines 125-131: the old bridge is stopped, a new one is made
\* and started, and the status says "connected"
OrchBridge(r) ==
    /\ prog = "orchestrator"
    /\ run[r].pc = "bridge"
    /\ lastOp' = "life"
    /\ bridgeObj' = r
    /\ liveB' = (liveB \ {bridgeObj}) \cup {r}
    /\ iris_bridge' = "connected"
    /\ run' = [run EXCEPT ![r].pc = "done", ![r].did = @ \cup {"bridge"}]
    /\ UNCHANGED <<android, androidBy, skills, skills_active, dirExists>>
    /\ UNCHANGED <<fwd, fwdCalls>>
    /\ LifeFrame

NextLife ==
    \/ \E r \in Runs : LifeStart(r)
    \/ \E r \in Runs, ok \in BOOLEAN : ApiProbe(r, ok)
    \/ \E r \in Runs, apk, pid \in BOOLEAN : ApiDeploy(r, apk, pid)
    \/ \E r \in Runs : ApiForward(r)
    \/ \E r \in Runs : ApiLoad(r)
    \/ \E r \in Runs : ApiBridge(r)
    \/ \E r \in Runs, ok \in BOOLEAN : OrchProbe(r, ok)
    \/ \E r \in Runs, pid \in BOOLEAN : OrchDeploy(r, pid)
    \/ \E r \in Runs : OrchBridge(r)

\* lifecycle_start, api_server.py lines 142-144 (orchestrator.py 129-131): the
\* bridge is made, start() is called on it, and when start() has returned the
\* status field is set; start() sets the flag and spawns the loop thread
LifecycleBridge ==
    /\ thr[1].pc = "none"
    /\ keep_running' = TRUE
    /\ thr' = [thr EXCEPT ![1].pc = "check"]
    /\ iris_bridge' = "connected"
    /\ lastOp' = "start"
    /\ UNCHANGED <<ws, wsSt, handed, handedStopped, arrived, caughtErr, closeSticks, stopCalls, stopRaised>>
    /\ UNCHANGED <<android, androidBy, run, bridgeObj, liveB, fwd, fwdCalls>>
    /\ UNCHANGED <<skillVars, appVars>>

\* the bridge the startup sequence made, with further calls of start() and
\* stop() on it
NextLoops ==
    \/ LifecycleBridge
    \/ \E t \in ThreadSlots : BridgeStart(t)
    \/ \E t \in ThreadSlots : LoopCheck(t)
    \/ \E t \in ThreadSlots : LoopCreate(t)
    \/ \E t \in ThreadSlots : LoopRun(t)
    \/ \E t \in ThreadSlots, kind \in FrameKinds : OnMessage(t, kind)
    \/ \E t \in ThreadSlots : RunReturns(t)
    \/ \E t \in ThreadSlots : LoopAfter(t)
    \/ \E t \in ThreadSlots : LoopWake(t)
    \/ BridgeStop

NextBridge ==
    \/ \E t \in Threads : BridgeStart(t)
    \/ \E t \in Threads : LoopCheck(t)
    \/ \E t \in Threads : LoopCreate(t)
    \/ \E t \in Threads : LoopRun(t)
    \/ \E t \in Threads, kind \in FrameKinds : OnMessage(t, kind)
    \/ \E t \in Threads : RunReturns(t)
    \/ \E t \in Threads : LoopAfter(t)
    \/ \E t \in Threads : LoopWake(t)
    \/ BridgeStop


\* ============================================================= WebhookManager
Urls == {"http://u1", "http://u2"}

EventNames == {"message", "NICKNAME_CHANGE"}

\* WebhookManager.__init__
HooksInit ==
    /\ webhooks = <<>>
    /\ trg = <<>>

\* the elements of a list
Elems(q) == {q[i] : i \in 1..Len(q)}

\* a subscription that appends without looking
AppendAlways(q, u) == Append(q, u)

\* lines 13-14: if url not in self.webhooks: self.webhooks.append(url)
AppendIfAbsent(q, u) == IF u \in Elems(q) THEN q ELSE Append(q, u)

\* lines 18-19: if url in self.webhooks: self.webhooks.remove(url);
\* list.remove takes out the first occurrence
RemoveFirst(q, u) ==
    IF u \in Elems(q)
    THEN LET i == CHOOSE j \in 1..Len(q) :
                      q[j] = u /\ \A h \in 1..(j - 1) : q[h] # u
         IN  SubSeq(q, 1, i - 1) \o SubSeq(q, i + 1, Len(q))
    ELSE q

\* add_webhook (lines 11-14), under the lock: append unless already there
AddWebhook(u) ==
    /\ webhooks' = AppendIfAbsent(webhooks, u)
    /\ lastOp' = "add_webhook"
    /\ UNCHANGED <<trg, eventVars, dataVars>>
    /\ UNCHANGED <<bridgeVars, skillVars, lifeVars>>

\* remove_webhook (lines 16-19), under the lock: remove when there
RemoveWebhook(u) ==
    /\ webhooks' = RemoveFirst(webhooks, u)
    /\ lastOp' = "remove_webhook"
    /\ UNCHANGED <<trg, eventVars, dataVars>>
    /\ UNCHANGED <<bridgeVars, skillVars, lifeVars>>

\* trigger (lines 21-36) as its caller sees it: the payload is built, _send is
\* defined and a thread is started on it; nothing is read from self.webhooks
\* and nothing is sent before trigger returns. atCall records the URLs that
\* were registered when trigger was called.
Spawned(ev) ==
    [ev |-> ev, atCall |-> Elems(webhooks), pc |-> "spawned", snap |-> <<>>,
     i |-> 1, flight |-> FALSE, failedAt |-> 0]

Trigger(ev) ==
    /\ Len(trg) < MaxTriggers
    /\ trg' = Append(trg, Spawned(ev))
    /\ lastOp' = "trigger"
    /\ UNCHANGED <<webhooks, eventVars, dataVars>>
    /\ UNCHANGED <<bridgeVars, skillVars, lifeVars>>

\* _send, lines 28-29, on the background thread: with self._lock:
\* current_webhooks = list(self.webhooks)
SendSnapshot(k) ==
    /\ k \in 1..Len(trg)
    /\ trg[k].pc = "spawned"
    /\ trg' = [trg EXCEPT ![k].pc = "loop", ![k].snap = webhooks]
    /\ lastOp' = "send"
    /\ UNCHANGED <<webhooks, eventVars, dataVars>>
    /\ UNCHANGED <<bridgeVars, skillVars, lifeVars>>

\* _send, line 30: the for loop over current_webhooks takes the next URL and
\* requests.post(url, json=payload, timeout=2) is entered for it; j is the
\* position of the URL in the snapshot. The loop body is entered for one URL
\* at a time, in list order.
PostStart(k, j) ==
    /\ k \in 1..Len(trg)
    /\ trg[k].pc = "loop"
    /\ ~trg[k].flight
    /\ j = trg[k].i
    /\ j <= Len(trg[k].snap)
    /\ trg' = [trg EXCEPT ![k].flight = TRUE]
    /\ lastOp' = "send"
    /\ UNCHANGED <<webhooks, eventVars, dataVars>>
    /\ UNCHANGED <<bridgeVars, skillVars, lifeVars>>

\* a _send whose loop has no try/except
PostErrorEscapes == FALSE

\* _send, lines 31-34: the try/except around requests.post
PostErrorCaught == TRUE

\* requests.post returns, or raises (refused, timed out after 2 s, ...) and
\* the exception is caught and printed; an exception that escaped would end the
\* thread
PostEnd(k, ok) ==
    /\ k \in 1..Len(trg)
    /\ trg[k].pc = "loop"
    /\ trg[k].flight
    /\ trg' = [trg EXCEPT
                 ![k].flight = FALSE,
                 ![k].i = @ + 1,
                 ![k].failedAt = IF ~ok /\ @ = 0 THEN trg[k].i ELSE @,
                 ![k].pc = IF ~ok /\ ~PostErrorCaught THEN "died" ELSE @]
    /\ lastOp' = "send"
    /\ UNCHANGED <<webhooks, eventVars, dataVars>>
    /\ UNCHANGED <<bridgeVars, skillVars, lifeVars>>

\* the for loop is exhausted: _send returns and the thread ends
SendEnd(k) ==
    /\ k \in 1..Len(trg)
    /\ trg[k].pc = "loop"
    /\ ~trg[k].flight
    /\ trg[k].i > Len(trg[k].snap)
    /\ trg' = [trg EXCEPT ![k].pc = "done"]
    /\ lastOp' = "send"
    /\ UNCHANGED <<webhooks, eventVars, dataVars>>
    /\ UNCHANGED <<bridgeVars, skillVars, lifeVars>>

NextHooks ==
    \/ \E u \in Urls : AddWebhook(u)
    \/ \E u \in Urls : RemoveWebhook(u)
    \/ \E ev \in EventNames : Trigger(ev)
    \/ \E k \in 1..MaxTriggers : SendSnapshot(k)
    \/ \E k \in 1..MaxTriggers, j \in 1..Cardinality(Urls) : PostStart(k, j)
    \/ \E k \in 1..MaxTriggers, ok \in BOOLEAN : PostEnd(k, ok)
    \/ \E k \in 1..MaxTriggers : SendEnd(k)

\* subscriptions and triggers of one event; the event name is part of the
\* payload only
NextSubs ==
    \/ \E u \in Urls : AddWebhook(u)
    \/ \E u \in Urls : RemoveWebhook(u)
    \/ Trigger("message")
    \/ \E k \in 1..MaxTriggers : SendSnapshot(k)
    \/ \E k \in 1..MaxTriggers, j \in 1..Cardinality(Urls) : PostStart(k, j)
    \/ \E k \in 1..MaxTriggers, ok \in BOOLEAN : PostEnd(k, ok)
    \/ \E k \in 1..MaxTriggers : SendEnd(k)

\* ================================================ event path of api_server.py
FrameTypes == {"none", "stend_event", "other"}

\* the "event" key of a frame: absent, or a name
EventFields == {"none", "NICKNAME_CHANGE"}

\* a JSON value on its way: form "text" is a str as it comes off the socket (ok:
\* its text is well-formed JSON), form "obj" is the dict json.loads made of it;
\* msg: the object has the key "msg"; type, event: its "type" and "event" keys
WireFrames ==
    {f \in [form : {"text"}, ok : BOOLEAN, msg : BOOLEAN, type : FrameTypes,
            event : EventFields] :
        ~f.ok => (~f.msg /\ f.type = "none" /\ f.event = "none")}

NoFrame == [form |-> "none", ok |-> FALSE, msg |-> FALSE, type |-> "none",
            event |-> "none"]

EventsInit ==
    /\ lastFrame = NoFrame
    /\ inv = <<>>
    /\ trigBy = <<>>
    /\ dispatchErr = FALSE

\* json.loads(x): a str of well-formed JSON gives the object; a str that is not
\* JSON raises JSONDecodeError; anything that is not str, bytes or bytearray (a
\* dict) raises TypeError
JsonLoads(x) ==
    IF x.form = "text" /\ x.ok
    THEN [err |-> FALSE, val |-> [x EXCEPT !.form = "obj"]]
    ELSE [err |-> TRUE, val |-> x]

\* SkillManager.dispatch(cat, data) as one call: the units of the registry
\* whose handler it invokes, in list order (an exception of a handler is caught)
Invoked(q, cat) == SelectSeq(q, LAMBDA u : CallsHandler(u, cat))

\* the dispatch callback of lifecycle_start (api_server.py lines 119-140) on
\* what the bridge hands it: json.loads of it, then the branch on "msg" and
\* "type"; every exception is caught (line 139). Gives the handler invocations
\* and the names webhooks.trigger is called with.
ApiDispatch(raw) ==
    LET p == JsonLoads(raw)
    IN  IF p.err
        THEN [inv |-> <<>>, trig |-> <<>>, err |-> TRUE]
        ELSE [inv  |-> IF p.val.msg THEN Invoked(skills, "message")
                       ELSE IF p.val.type = "stend_event"
                            THEN Invoked(skills, "stend_event")
                            ELSE <<>>,
              trig |-> IF p.val.msg THEN <<"message">>
                       ELSE IF p.val.type = "stend_event"
                            THEN <<p.val.event>>
                            ELSE <<>>,
              err  |-> FALSE]

\* IrisBridge._on_message (bridge.py lines 41-47) with the dispatch callback:
\* the frame's text is parsed, the result is handed to the callback, and a
\* parse error is caught
BridgeHands(f) ==
    LET p == JsonLoads(f)
    IN  IF p.err THEN [inv |-> <<>>, trig |-> <<>>, err |-> FALSE]
        ELSE ApiDispatch(p.val)

\* one frame arrives on the connected bridge of api_server.py and is processed
\* to the end on the bridge thread: handlers run, and a thread is started for
\* every call of webhooks.trigger
FrameArrives(f) ==
    LET out == BridgeHands(f)
    IN  /\ prog = "api_server"
        /\ Len(trg) + Len(out.trig) <= MaxTriggers
        /\ lastFrame' = f
        /\ inv' = out.inv
        /\ trigBy' = out.trig
        /\ dispatchErr' = out.err
        /\ trg' = trg \o [j \in 1..Len(out.trig) |-> Spawned(out.trig[j])]
        /\ lastOp' = "event"
        /\ UNCHANGED <<webhooks, dataVars>>
        /\ UNCHANGED <<bridgeVars, skillVars, lifeVars>>

\* the dispatch callback (api_server.py lines 119-140) is called with the text
\* of a frame, the str its json.loads(raw_data) is written for, and runs to
\* the end: handlers run, and a thread is started for every call of
\* webhooks.trigger
CallbackCalled(raw) ==
    LET out == ApiDispatch(raw)
    IN  /\ prog = "api_server"
        /\ Len(trg) + Len(out.trig) <= MaxTriggers
        /\ lastFrame' = raw
        /\ inv' = out.inv
        /\ trigBy' = out.trig
        /\ dispatchErr' = out.err
        /\ trg' = trg \o [j \in 1..Len(out.trig) |-> Spawned(out.trig[j])]
        /\ lastOp' = "callback"
        /\ UNCHANGED <<webhooks, dataVars>>
        /\ UNCHANGED <<bridgeVars, skillVars, lifeVars>>

NextEvents ==
    \/ \E l \in Loaders : LoadBegin(l)
    \/ \E l \in Loaders : LoadStep(l)
    \/ \E f \in WireFrames : FrameArrives(f)
    \/ \E f \in WireFrames : CallbackCalled(f)

\* ============================================ StendStore, SharedStateManager
Keys == {"k1", "k2"}

\* values a caller passes: strings (x is the string), and JSON-serializable
\* values that are not strings (x is the text json.dumps gives for them)
StrVals == {[t |-> "str", x |-> "hello"], [t |-> "str", x |-> "123"],
            [t |-> "str", x |-> "null"], [t |-> "str", x |-> "[1, 2]"]}

JsonVals == {[t |-> "int", x |-> "123"], [t |-> "null", x |-> "null"],
             [t |-> "list", x |-> "[1, 2]"]}

Vals == StrVals \cup JsonVals

\* Python's None
None == [t |-> "null", x |-> "null"]

\* no value (a key that is not in a dict; no call yet)
NoVal == [t |-> "none", x |-> ""]

\* no row for the key
Absent == "<absent>"

\* json.dumps of a value that is not a string: its JSON text
JsonDumps(v) == v.x

\* put, lines 26-27: a str is stored as it is, anything else as json.dumps of it
Encode(v) == IF v.t = "str" THEN v.x ELSE JsonDumps(v)

\* get, lines 40-43: json.loads of the stored text when it parses, otherwise
\* the text itself
Decode(text) ==
    IF \E v \in JsonVals : JsonDumps(v) = text
    THEN CHOOSE v \in JsonVals : JsonDumps(v) = text
    ELSE [t |-> "str", x |-> text]

StoreInit ==
    /\ store = [k \in Keys |-> Absent]
    /\ lastVal = [k \in Keys |-> NoVal]
    /\ shared = [k \in Keys |-> NoVal]
    /\ got = [k |-> "", v |-> NoVal]
    /\ lostShared = FALSE

\* what a step on the store or the shared state leaves alone
StoreFrame ==
    /\ UNCHANGED <<bridgeVars, skillVars, lifeVars>>
    /\ UNCHANGED <<hookVars, eventVars, reqVars, adbVars, lockVars, gemVars>>

\* StendStore.put (lines 24-32): INSERT OR REPLACE of the encoded value
StorePut(k, v) ==
    /\ store' = [store EXCEPT ![k] = Encode(v)]
    /\ lastVal' = [lastVal EXCEPT ![k] = v]
    /\ lastOp' = "put"
    /\ UNCHANGED <<shared, got, lostShared>>
    /\ StoreFrame

\* StendStore.get (lines 34-44): the decoded text of the row, None without a row
StoreGet(k) ==
    /\ got' = [k |-> k, v |-> IF store[k] = Absent THEN None ELSE Decode(store[k])]
    /\ lastOp' = "get"
    /\ UNCHANGED <<store, lastVal, shared, lostShared>>
    /\ StoreFrame

\* StendStore.delete (lines 46-50)
StoreDelete(k) ==
    /\ store' = [store EXCEPT ![k] = Absent]
    /\ lastVal' = [lastVal EXCEPT ![k] = NoVal]
    /\ lastOp' = "delete"
    /\ UNCHANGED <<shared, got, lostShared>>
    /\ StoreFrame

\* StendStore.list_keys and search_key (lines 52-60): SELECT only
StoreList ==
    /\ lastOp' = "list_keys"
    /\ UNCHANGED <<store, lastVal, shared, got, lostShared>>
    /\ StoreFrame

\* SharedStateManager.set (lines 43-45)
SharedSet(k, v) ==
    /\ shared' = [shared EXCEPT ![k] = v]
    /\ lastOp' = "shared_set"
    /\ UNCHANGED <<store, lastVal, got, lostShared>>
    /\ StoreFrame

\* SharedStateManager.delete (lines 51-54)
SharedDelete(k) ==
    /\ shared' = [shared EXCEPT ![k] = NoVal]
    /\ lastOp' = "shared_delete"
    /\ UNCHANGED <<store, lastVal, got, lostShared>>
    /\ StoreFrame

\* SharedStateManager.get and get_all (lines 47-49, 56-58): reads under the lock
SharedRead ==
    /\ lastOp' = "shared_get"
    /\ UNCHANGED <<store, lastVal, shared, got, lostShared>>
    /\ StoreFrame

\* a store that lives in the memory of the process
StoreInMemory(tbl) == [k \in Keys |-> Absent]

\* the table a new process finds: StendStore.__init__ opens the file
\* stend_store.db and creates the table only if it does not exist (lines 10-22)
StoreReopened(tbl) == tbl

\* the process ends and is started again: api_server.py lines 41-43 run again,
\* SharedStateManager.__init__ makes an empty dict, StendStore opens the file
Restart ==
    /\ store' = StoreReopened(store)
    /\ shared' = [k \in Keys |-> NoVal]
    /\ lostShared' = (lostShared \/ \E k \in Keys : shared[k] # NoVal)
    /\ got' = [k |-> "", v |-> NoVal]
    /\ lastOp' = "restart"
    /\ UNCHANGED lastVal
    /\ StoreFrame

\* the values put into the shared state
SharedVals == {[t |-> "str", x |-> "hello"], [t |-> "int", x |-> "123"]}

NextStore ==
    \/ \E k \in Keys, v \in Vals : StorePut(k, v)
    \/ \E k \in Keys : StoreGet(k)
    \/ \E k \in Keys : StoreDelete(k)
    \/ StoreList
    \/ \E k \in Keys, v \in SharedVals : SharedSet(k, v)
    \/ \E k \in Keys : SharedDelete(k)
    \/ SharedRead
    \/ Restart

\* =========================== SharedStateManager under concurrent callers
\* the threads that call the shared state: request handlers and plugins
Callers == {"t1", "t2"}

ShOps == {"set", "get", "delete", "get_all"}

NoCall == [pc |-> "idle", op |-> "none", k |-> "", v |-> NoVal, ret |-> NoVal,
           raised |-> FALSE]

\* __init__ (lines 39-41): an empty dict and a lock nobody holds
LockInit ==
    /\ lock = "free"
    /\ call = [c \in Callers |-> NoCall]
    /\ snap = [alias |-> FALSE, d |-> [k \in Keys |-> NoVal]]
    /\ linState = [k \in Keys |-> NoVal]

\* what a step of a call on the shared state leaves alone
LockFrame ==
    /\ UNCHANGED <<store, lastVal, got, lostShared>>
    /\ UNCHANGED <<bridgeVars, skillVars, lifeVars>>
    /\ UNCHANGED <<hookVars, eventVars, reqVars, adbVars, gemVars>>

\* a caller enters set(key, value), get(key), delete(key) or get_all()
ShCall(c, op, k, v) ==
    /\ call[c].pc = "idle"
    /\ op = "set" <=> v # NoVal
    /\ op = "get_all" <=> k = ""
    /\ call' = [call EXCEPT ![c] = [pc |-> "wait", op |-> op, k |-> k, v |-> v,
                                    ret |-> NoVal, raised |-> FALSE]]
    /\ lastOp' = "sh_call"
    /\ UNCHANGED <<shared, lock, snap, linState>>
    /\ LockFrame

\* a lock that lets every caller in
LockNeverHeld == TRUE

\* threading.Lock (line 41): acquire returns only while nobody holds the lock
LockAvailable == lock = "free"

\* with self._lock: the caller acquires the lock (lines 44, 48, 52, 57)
ShAcquire(c) ==
    /\ call[c].pc = "wait"
    /\ LockAvailable
    /\ lock' = c
    /\ call' = [call EXCEPT ![c].pc = "body"]
    /\ lastOp' = "sh_acquire"
    /\ UNCHANGED <<shared, snap, linState>>
    /\ LockFrame

\* self.state.get(key), line 49: the value, None for a key that is not there
DictGet(d, k) == IF d[k] = NoVal THEN None ELSE d[k]

\* get_all, line 58: dict(self.state) is a new dict with the same items
GetAllResult(d) == [alias |-> FALSE, d |-> d]

\* the statement under the lock: the assignment of set (line 45), the read of
\* get (line 49), the membership test of delete (line 53), the copy of
\* get_all (line 58). linState follows the call at the point it takes effect.
ShBody(c) ==
    /\ call[c].pc = "body"
    /\ lastOp' = "sh_body"
    /\ LET q == call[c]
       IN  CASE q.op = "set" ->
                  /\ shared' = [shared EXCEPT ![q.k] = q.v]
                  /\ linState' = [linState EXCEPT ![q.k] = q.v]
                  /\ call' = [call EXCEPT ![c].pc = "exit"]
                  /\ UNCHANGED snap
             [] q.op = "get" ->
                  /\ call' = [call EXCEPT ![c].pc = "exit",
                                          ![c].ret = DictGet(shared, q.k)]
                  /\ UNCHANGED <<shared, linState, snap>>
             [] q.op = "delete" ->
                  /\ IF shared[q.k] # NoVal
                     THEN /\ call' = [call EXCEPT ![c].pc = "del"]
                          /\ linState' = [linState EXCEPT ![q.k] = NoVal]
                     ELSE /\ call' = [call EXCEPT ![c].pc = "exit"]
                          /\ UNCHANGED linState
                  /\ UNCHANGED <<shared, snap>>
             [] q.op = "get_all" ->
                  /\ snap' = GetAllResult(shared)
                  /\ call' = [call EXCEPT ![c].pc = "exit"]
                  /\ UNCHANGED <<shared, linState>>
    /\ UNCHANGED lock
    /\ LockFrame

\* del self.state[key], line 54: KeyError when the key is not in the dict
ShDel(c) ==
    /\ call[c].pc = "del"
    /\ lastOp' = "sh_body"
    /\ IF shared[call[c].k] = NoVal
       THEN /\ call' = [call EXCEPT ![c].pc = "exit", ![c].raised = TRUE]
            /\ UNCHANGED shared
       ELSE /\ call' = [call EXCEPT ![c].pc = "exit"]
            /\ shared' = [shared EXCEPT ![call[c].k] = NoVal]
    /\ UNCHANGED <<lock, snap, linState>>
    /\ LockFrame

\* the with block ends: the lock is released and the call returns
ShReturn(c) ==
    /\ call[c].pc = "exit"
    /\ lock' = "free"
    /\ call' = [call EXCEPT ![c].pc = "idle"]
    /\ lastOp' = "sh_return"
    /\ UNCHANGED <<shared, snap, linState>>
    /\ LockFrame

\* the caller of get_all assigns to a key of the dict it was given, or deletes
\* it (v = NoVal)
ModifyCopy(k, v) ==
    /\ snap.d[k] # v
    /\ snap' = [snap EXCEPT !.d[k] = v]
    /\ shared' = IF snap.alias THEN [shared EXCEPT ![k] = v] ELSE shared
    /\ lastOp' = "modify_copy"
    /\ UNCHANGED <<lock, call, linState>>
    /\ LockFrame

NextShared ==
    \/ \E c \in Callers, op \in ShOps, k \in Keys \cup {""},
          v \in SharedVals \cup {NoVal} : ShCall(c, op, k, v)
    \/ \E c \in Callers : ShAcquire(c)
    \/ \E c \in Callers : ShBody(c)
    \/ \E c \in Callers : ShDel(c)
    \/ \E c \in Callers : ShReturn(c)
    \/ \E k \in Keys, v \in SharedVals \cup {NoVal} : ModifyCopy(k, v)

\* ============================================================ RequestHandler
\* RequestHandler.__init__ (lines 26-29); max_retries is an attribute a caller
\* may lower
ReqInit ==
    /\ rq = [pc |-> "idle", retries |-> 0, attempts |-> 0, retry |-> TRUE,
             last |-> "none", result |-> "none"]
    /\ request_count = 0
    /\ error_count = 0
    /\ max_retries \in 0..DefaultMaxRetries

\* what a step of process_request leaves alone
ReqFrame ==
    /\ UNCHANGED <<bridgeVars, skillVars, lifeVars>>
    /\ UNCHANGED <<hookVars, eventVars, storeVars, adbVars, lockVars, gemVars>>

\* process_request is called (lines 47-53): rate limiting, request counter,
\* retries = 0
ReqBegin(retry) ==
    /\ rq.pc \in {"idle", "returned"}
    /\ request_count < MaxRequests
    /\ request_count' = request_count + 1
    /\ rq' = [pc |-> "loop", retries |-> 0, attempts |-> 0, retry |-> retry,
              last |-> "none", result |-> "none"]
    /\ lastOp' = "request"
    /\ UNCHANGED <<error_count, max_retries>>
    /\ ReqFrame

\* a handler that stops retrying only when the retries are used up
StopsWhenExhausted(retry, retries) == retries >= max_retries

\* line 67: if not retry_on_error or retries >= self.max_retries
StopsRetrying(retry, retries) == ~retry \/ retries >= max_retries

\* one pass of the while loop (lines 55-72), where generate_content returns a
\* success or a failure, or the exit of the loop (lines 75-79)
ReqAttempt(ok) ==
    /\ rq.pc = "loop"
    /\ lastOp' = "request"
    /\ IF rq.retries <= max_retries
       THEN IF ok
            THEN /\ rq' = [rq EXCEPT !.pc = "returned", !.attempts = @ + 1,
                                     !.last = "ok", !.result = "ok"]
                 /\ UNCHANGED error_count
            ELSE /\ error_count' = error_count + 1
                 /\ IF StopsRetrying(rq.retry, rq.retries)
                    THEN rq' = [rq EXCEPT !.pc = "returned", !.attempts = @ + 1,
                                          !.last = "fail", !.result = "fail"]
                    ELSE rq' = [rq EXCEPT !.retries = @ + 1, !.attempts = @ + 1,
                                          !.last = "fail"]
       ELSE /\ rq' = [rq EXCEPT !.pc = "returned", !.result = "exceeded"]
            /\ UNCHANGED error_count
    /\ UNCHANGED <<request_count, max_retries>>
    /\ ReqFrame

\* get_request_stats (lines 105-109): success_rate is
\* (request_count - error_count) / max(1, request_count) * 100, a float; this
\* is its floor
SuccessRate ==
    ((request_count - error_count) * 100)
        \div (IF request_count > 1 THEN request_count ELSE 1)

NextReq ==
    \/ \E retry \in BOOLEAN : ReqBegin(retry)
    \/ \E ok \in BOOLEAN : ReqAttempt(ok)

\* ================================================================ AdbManager
\* how a command run through run() ends: it succeeds, or it fails
\* (CalledProcessError) with an output that holds "device offline", "not found",
\* or neither
CmdOutcomes == {"ok", "device offline", "not found", "other failure"}

\* what adb get-state gives wait_for_device through run(): the text "device", the
\* text of another state, or None when the command failed
PollResults == {"device", "offline", "None"}

AdbInit ==
    /\ wd = [pc |-> "idle", timeout |-> 0, elapsed |-> 0, pollAt |-> 0, polls |-> 0,
             sawReady |-> FALSE, ret |-> FALSE]
    /\ adbCall = [out |-> "none", ret |-> "none", raised |-> FALSE, printed |-> FALSE]
    /\ irisCall = [push |-> FALSE, launch |-> FALSE, pid |-> FALSE, ret |-> FALSE]

\* what a step of the adb manager leaves alone
AdbFrame ==
    /\ UNCHANGED <<bridgeVars, skillVars, lifeVars>>
    /\ UNCHANGED <<hookVars, eventVars, storeVars, reqVars, lockVars, gemVars>>

\* AdbManager.run (lines 10-20) as a function of how the command ends: the
\* output on success; on every CalledProcessError None, with a line printed
\* unless the output holds "device offline" or "not found"
AdbRun(out) ==
    [out     |-> out,
     ret     |-> IF out = "ok" THEN "output" ELSE "None",
     raised  |-> FALSE,
     printed |-> out \notin {"ok", "device offline", "not found"}]

\* a command is run through run()
RunCmd(out) ==
    /\ adbCall' = AdbRun(out)
    /\ lastOp' = "run"
    /\ UNCHANGED <<wd, irisCall>>
    /\ AdbFrame

\* wait_for_device(timeout) is called (lines 27-29): start = time.time()
WaitBegin(timeout) ==
    /\ wd.pc \in {"idle", "returned"}
    /\ wd' = [pc |-> "test", timeout |-> timeout, elapsed |-> 0, pollAt |-> 0,
              polls |-> 0, sawReady |-> FALSE, ret |-> FALSE]
    /\ lastOp' = "wait"
    /\ UNCHANGED <<adbCall, irisCall>>
    /\ AdbFrame

\* line 30: while time.time() - start < timeout; the body starts a poll (line
\* 31), the exit returns False (lines 36-37)
WaitTest ==
    /\ wd.pc = "test"
    /\ wd' = IF wd.elapsed < wd.timeout
             THEN [wd EXCEPT !.pc = "poll", !.pollAt = wd.elapsed, !.polls = @ + 1]
             ELSE [wd EXCEPT !.pc = "returned", !.ret = FALSE]
    /\ lastOp' = "wait"
    /\ UNCHANGED <<adbCall, irisCall>>
    /\ AdbFrame

\* a probe that takes any output of get-state for ready
IsReadyLoose(res) == res # "None"

\* line 32: if res == "device"
IsReady(res) == res = "device"

\* lines 31-34: run(["get-state"]) returns res after d seconds; "device" makes
\* wait_for_device return True
WaitPoll(res, d) ==
    /\ wd.pc = "poll"
    /\ wd' = IF IsReady(res)
             THEN [wd EXCEPT !.pc = "returned", !.ret = TRUE, !.elapsed = @ + d,
                             !.sawReady = @ \/ res = "device"]
             ELSE [wd EXCEPT !.pc = "sleep", !.elapsed = @ + d,
                             !.sawReady = @ \/ res = "device"]
    /\ lastOp' = "wait"
    /\ UNCHANGED <<adbCall, irisCall>>
    /\ AdbFrame

\* line 35: time.sleep(1)
WaitSleep ==
    /\ wd.pc = "sleep"
    /\ wd' = [wd EXCEPT !.pc = "test", !.elapsed = @ + 1]
    /\ lastOp' = "wait"
    /\ UNCHANGED <<adbCall, irisCall>>
    /\ AdbFrame

\* the steps of a call of wait_for_device that is under way
WaitStep ==
    \/ WaitTest
    \/ \E res \in PollResults, d \in 0..1 : WaitPoll(res, d)
    \/ WaitSleep

\* start_iris_process (lines 51-69) as a function of how its commands end: the
\* results of push (line 54) and of the launch command (line 62) are not
\* looked at; it returns whether pidof printed a process id (lines 65-69)
StartIrisProcess(push, launch, pid) ==
    [push |-> push, launch |-> launch, pid |-> pid, ret |-> pid]

\* start_iris_process is called; the copy succeeds or not, the launch command
\* succeeds or not, pidof finds a process or not
StartIris(push, launch, pid) ==
    /\ irisCall' = StartIrisProcess(push, launch, pid)
    /\ lastOp' = "deploy"
    /\ UNCHANGED <<wd, adbCall>>
    /\ AdbFrame

NextAdb ==
    \/ \E out \in CmdOutcomes : RunCmd(out)
    \/ \E timeout \in 0..MaxTimeout : WaitBegin(timeout)
    \/ WaitTest
    \/ \E res \in PollResults, d \in 0..1 : WaitPoll(res, d)
    \/ WaitSleep
    \/ \E push, launch, pid \in BOOLEAN : StartIris(push, launch, pid)

\* =================================== ConversationManager, ResponseGenerator
\* ConversationManager.__init__ (conversation.py lines 27-29) and
\* ResponseGenerator.__init__ (response_generator.py line 39);
\* max_history_length is the default, or 1 on a manager whose
\* set_max_history_length(1) was called before
GemInit ==
    /\ conversation_history = <<>>
    /\ max_history_length \in {1, DefaultMaxHistoryLength}
    /\ response_cache = [fresh |-> 0, old |-> 0]

\* what a step of the conversation or of the response generator leaves alone
GemFrame ==
    /\ UNCHANGED <<bridgeVars, skillVars, lifeVars>>
    /\ UNCHANGED <<hookVars, eventVars, storeVars, reqVars, adbVars, lockVars>>

\* _trim_conversation_history (conversation.py lines 116-118): a history longer
\* than 2 * max_length is cut to its last 2 * max_length messages
TrimHistory(h, m) ==
    IF Len(h) > m * 2 THEN SubSeq(h, Len(h) - m * 2 + 1, Len(h)) ELSE h

\* add_user_message (lines 51-72): the user message is appended, the history
\* trimmed, the request made, and the reply appended when it succeeded
AddUserMessage(h, m, ok) ==
    LET asked == TrimHistory(Append(h, "user"), m)
    IN  IF ok THEN Append(asked, "assistant") ELSE asked

\* ConversationManager.add_user_message is called; ok: process_request
\* returned a success
ConvAdd(ok) ==
    /\ conversation_history' =
           AddUserMessage(conversation_history, max_history_length, ok)
    /\ lastOp' = "add_user_message"
    /\ UNCHANGED <<max_history_length, response_cache>>
    /\ GemFrame

\* set_max_history_length (lines 141-145): ValueError below 1, otherwise the
\* attribute is set and the history trimmed
ConvSetMax(n) ==
    /\ IF n < 1
       THEN UNCHANGED <<conversation_history, max_history_length>>
       ELSE /\ max_history_length' = n
            /\ conversation_history' = TrimHistory(conversation_history, n)
    /\ lastOp' = IF n < 1 THEN "set_max_raised" ELSE "set_max_history_length"
    /\ UNCHANGED response_cache
    /\ GemFrame

\* clear_conversation (lines 120-123)
ConvClear ==
    /\ conversation_history' = <<>>
    /\ lastOp' = "clear_conversation"
    /\ UNCHANGED <<max_history_length, response_cache>>
    /\ GemFrame

NextConv ==
    \/ \E ok \in BOOLEAN : ConvAdd(ok)
    \/ \E n \in 0..MaxHistoryArg : ConvSetMax(n)
    \/ ConvClear

\* the number of entries of the cache
CacheSize(c) == c.fresh + c.old

\* _clean_cache (response_generator.py lines 164-174): the entries whose
\* timestamp is more than cache_ttl old are deleted
CleanCache(c) == [c EXCEPT !.old = 0]

\* _add_to_cache (lines 133-140) for a key that is not in the cache: the entry
\* is stored with the current time, and above 100 entries _clean_cache runs
AddToCache(c) ==
    LET added == [c EXCEPT !.fresh = @ + 1]
    IN  IF CacheSize(added) > CacheLimit THEN CleanCache(added) ELSE added

\* generate_response (lines 66-69) for a key whose entry is in the cache and
\* not older than cache_ttl: the cached response is returned
GenHit ==
    /\ response_cache.fresh > 0
    /\ lastOp' = "cache_hit"
    /\ UNCHANGED gemVars
    /\ GemFrame

\* generate_response (lines 66-97) for a key that has no entry (expired
\* FALSE) or an entry older than cache_ttl, which _get_from_cache deletes
\* (lines 158-160): add_user_message is called, and a successful response is
\* added to the cache
GenMiss(expired, ok) ==
    /\ expired => response_cache.old > 0
    /\ CacheSize(response_cache) < CacheLimit + MaxCacheOver
    /\ conversation_history' =
           AddUserMessage(conversation_history, max_history_length, ok)
    /\ LET looked == IF expired THEN [response_cache EXCEPT !.old = @ - 1]
                     ELSE response_cache
       IN  response_cache' = IF ok THEN AddToCache(looked) ELSE looked
    /\ lastOp' = IF ok THEN "generate_response" ELSE "generate_failed"
    /\ UNCHANGED max_history_length
    /\ GemFrame

\* time passes: the k oldest of the entries that were within cache_ttl are
\* now older than it
CacheAges(k) ==
    /\ k \in 1..response_cache.fresh
    /\ response_cache' = [fresh |-> response_cache.fresh - k,
                          old |-> response_cache.old + k]
    /\ lastOp' = "time"
    /\ UNCHANGED <<conversation_history, max_history_length>>
    /\ GemFrame

NextCache ==
    \/ GenHit
    \/ \E expired, ok \in BOOLEAN : GenMiss(expired, ok)
    \/ \E k \in 1..(CacheLimit + MaxCacheOver) : CacheAges(k)

Init ==
    /\ BridgeInit /\ SkillsInit /\ LifeInit /\ HooksInit /\ EventsInit
    /\ StoreInit /\ ReqInit /\ AdbInit /\ LockInit /\ GemInit

\* the components a specification does not move are as their constructors leave
\* them
Defaults ==
    /\ max_retries = DefaultMaxRetries
    /\ max_history_length = DefaultMaxHistoryLength

InitLife == Init /\ closeSticks = TRUE /\ Len(dir) <= MaxLifeFiles /\ Defaults

\* the startup sequence of either program, started up to MaxRuns times
Spec == InitLife /\ [][NextLife]_vars

\* the bridge alone
InitBridge == Init /\ prog = "api_server" /\ dirExists = TRUE /\ dir = <<>> /\ Defaults

SpecBridge == InitBridge /\ [][NextBridge]_vars

\* the plugin engine alone: loads, reloads and dispatches of either program
InitSkills == Init /\ closeSticks = TRUE /\ Defaults

SpecSkills == InitSkills /\ [][NextSkills]_vars

\* the event path of api_server.py: the registry is loaded and reloaded, frames
\* arrive on the connected bridge
InitEvents == Init /\ closeSticks = TRUE /\ prog = "api_server" /\ dirExists = TRUE /\ Defaults

SpecEvents == InitEvents /\ [][NextEvents]_vars

\* the loads of api_server.py: reload commands and start invocations
SpecLoads == InitEvents /\ [][NextLoads]_vars

\* the webhook manager: subscriptions, calls of trigger and their threads
InitHooks ==
    Init /\ closeSticks = TRUE /\ prog = "api_server" /\ dirExists = TRUE /\ dir = <<>>
         /\ Defaults

SpecHooks == InitHooks /\ [][NextHooks]_vars

\* the webhook registry: subscribe and unsubscribe calls around triggers
SpecSubs == InitHooks /\ [][NextSubs]_vars

\* the persistent store and the shared state, over process restarts
InitStore == InitHooks

SpecStore == InitStore /\ [][NextStore]_vars

\* the request handler, for every max_retries up to its default
InitReq ==
    Init /\ closeSticks = TRUE /\ prog = "api_server" /\ dirExists = TRUE /\ dir = <<>>
         /\ max_history_length = DefaultMaxHistoryLength

SpecReq == InitReq /\ [][NextReq]_vars

\* a call of process_request that can take its next step does (the API client
\* returns)
FairReq == SpecReq /\ WF_vars(\E ok \in BOOLEAN : ReqAttempt(ok))

\* the adb manager: commands, the device probe, the deploy
SpecAdb == InitHooks /\ [][NextAdb]_vars

\* a call of wait_for_device that can take its next step does (adb returns,
\* the sleep ends)
FairAdb == SpecAdb /\ WF_vars(WaitStep)

\* the shared state, called from two threads at once
SpecShared == InitHooks /\ [][NextShared]_vars

\* one bridge: made and started by the startup sequence, then started and
\* stopped again
SpecLoops == InitBridge /\ [][NextLoops]_vars

\* the components other than the conversation are as their constructors leave
\* them
InitGem ==
    Init /\ closeSticks = TRUE /\ prog = "api_server" /\ dirExists = TRUE /\ dir = <<>>
         /\ max_retries = DefaultMaxRetries

\* a new ConversationManager: messages, changes of the limit, clears
InitConv == InitGem /\ max_history_length = DefaultMaxHistoryLength

SpecConv == InitConv /\ [][NextConv]_vars

\* a ResponseGenerator whose conversation keeps one pair: calls of
\* generate_response, with time passing
InitCache == InitGem /\ max_history_length = 1

SpecCache == InitCache /\ [][NextCache]_vars

\* the loop threads are scheduled: a thread that can take its next step does
FairBridge == SpecBridge /\ \A t \in Threads : WF_vars(BridgeThreadStep(t))

\* ===================================================================== claims

\* connection attempts that have ended (failed, lost, or closed)
Ended == {c \in ConnIds : wsSt[c] = "closed"}

\* C8: until stop() is called no connection loop terminates; whenever a
\* connection attempt has ended and stop() has not been called, the loop goes
\* to its delay and nowhere else, and from there reaches the next connection
\* attempt (or stop() is called meanwhile) -- for every number of failures.
C8_ReconnectForever ==
    /\ [](\A t \in Threads : thr[t].pc = "exited" => stopCalls > 0)
    /\ [][\A t \in Threads :
            (thr[t].pc = "after" /\ stopCalls' = 0 /\ thr'[t].pc # "after")
                => thr'[t].pc = "sleep"]_vars
    /\ \A t \in Threads :
         (thr[t].pc = "after" /\ stopCalls = 0)
             ~> (thr[t].pc = "create" \/ stopCalls > 0)

\* C8 witness: two connection attempts have ended, stop() was never called and
\* the loop is connected again on a third attempt.
C8_Witness ==
    /\ stopCalls = 0
    /\ Cardinality(Ended) >= 2
    /\ \E t \in Threads : thr[t].pc = "running" /\ wsSt[thr[t].cur] = "open"

\* C9: once stop() has been called (and start() not called again) no frame is
\* handed to the callback -- stated for the websocket library most favourable to
\* it, in which close() before run_forever keeps the object closed.
C9_NoFrameAfterStop == closeSticks => ~handedStopped

\* C10: every call of stop() returns without raising and leaves keep_running
\* False and the current connection object not open; a call that directly
\* follows another call of stop() changes nothing in the bridge.
C10_StopIdempotent ==
    [][(lastOp' = "stop" /\ stopCalls' # stopCalls) =>
          /\ ~stopRaised'
          /\ ~keep_running'
          /\ ws' = ws
          /\ (ws' # 0 => wsSt'[ws'] # "open")
          /\ (lastOp = "stop" => UNCHANGED <<keep_running, ws, wsSt, thr>>)
          /\ (thr[1].pc = "none" => UNCHANGED <<keep_running, ws, wsSt, thr>>)]_vars

\* C10 witness: stop() was called twice in a row on a bridge that was never
\* started, and nothing was raised.
C10_Witness ==
    /\ lastOp = "stop"
    /\ stopCalls = 2
    /\ \A t \in Threads : thr[t].pc = "none"
    /\ ~stopRaised
    /\ ~keep_running
\* the units of a list that expose a handler for the category, in list order
RECURSIVE Handlers(_, _)
Handlers(q, cat) ==
    IF q = <<>> THEN <<>>
    ELSE LET u == q[Len(q)]
             front == Handlers(SubSeq(q, 1, Len(q) - 1), cat)
         IN  IF HasHandler(u, cat) THEN Append(front, u) ELSE front

\* C1: every dispatch ends by returning, never by raising, and by then it has
\* invoked, once each and in registry order, the handler of every unit of the
\* list it iterated that exposes one for the category -- also the units behind
\* a unit whose handler raises on every event.
C1_PluginIsolation ==
    [][(dp.pc = "iter" /\ dp'.pc # "iter") =>
          /\ dp'.pc = "done"
          /\ ~dispatchRaised'
          /\ seen' = Handlers(DispatchList, dp.cat)]_vars

\* C1 witness: the second event in a row has been delivered to b although a,
\* in front of it in the registry, raised on every event.
C1_Witness ==
    /\ dp.pc = "done"
    /\ evCount = 2
    /\ seen = <<"a", "b">>
    /\ skills = <<"a", "b">>
    /\ ~dispatchRaised

\* C6: when a call of SkillManager.load_skills has ended, it has returned (not
\* raised), it returned the names of the valid units of the directory, and
\* the registry holds exactly those units.
C6_LoadTolerant ==
    \A l \in Loaders :
        (prog = "api_server" /\ lastOp = "load" /\ ld[l].pc \in {"done", "raised"})
            => /\ ld[l].pc = "done"
               /\ ld[l].names = ValidNames(dir)
               /\ skills = ValidNames(dir)

\* C7: a dispatch delivers the event to a complete plugin set: when it ends,
\* the handlers it invoked are those of one of the complete registries there
\* were when it began (the set a running load replaced, or the set that load
\* is to produce).
C7_ReloadAtomic ==
    [][(dp.pc = "iter" /\ dp'.pc = "done") =>
          \E q \in dp.cands : seen' = Handlers(q, dp.cat)]_vars
\* no other run of lifecycle_start is under way
Alone(r) == \A q \in Runs \ {r} : run[q].pc \in {"idle", "done"}

\* C2 (as claimed): a run of lifecycle_start of api_server.py whose probe times
\* out completes with device = error and bridge = disconnected -- stated for a
\* run that no other run overlaps and that no failed deploy preceded.
C2_TimeoutLeavesBridgeDisconnected ==
    [][\A r \in Runs :
          (/\ prog = "api_server"
           /\ run[r].pc = "probe" /\ run'[r].probe = "timeout"
           /\ Alone(r)
           /\ \A q \in Runs : run[q].deploy # "fail" /\ ~run[q].loadRaised)
              => /\ android' = "error"
                 /\ iris_bridge' = "disconnected"]_vars

\* C2 (amended): a run of lifecycle_start of api_server.py whose probe times
\* out sets device = error and ends there: it runs no later stage and leaves
\* the bridge state, the plugin count, the registry and the bridges as they were.
C2_ProbeTimeoutAborts ==
    /\ [][\A r \in Runs :
            (prog = "api_server" /\ run[r].pc = "probe" /\ run'[r].probe = "timeout")
                => /\ android' = "error"
                   /\ run'[r].pc = "done"
                   /\ iris_bridge' = iris_bridge
                   /\ skills_active' = skills_active
                   /\ skills' = skills
                   /\ liveB' = liveB]_vars
    /\ [](\A r \in Runs :
            (prog = "api_server" /\ run[r].probe = "timeout")
                => /\ run[r].pc = "done"
                   /\ run[r].deploy = "none"
                   /\ run[r].did = {})

\* C2 witness: the first start found no device: device = error, bridge =
\* disconnected, no plugin counted.
C2_Witness ==
    /\ prog = "api_server"
    /\ run[1].probe = "timeout"
    /\ run[1].pc = "done"
    /\ android = "error"
    /\ iris_bridge = "disconnected"
    /\ skills_active = 0

\* C3: a run of lifecycle_start of api_server.py whose deploy+launch failed
\* executes none of the later stages (port forward, plugin load, bridge start).
C3_DeployFailureAborts ==
    \A r \in Runs :
        (prog = "api_server" /\ run[r].deploy = "fail") => run[r].did = {}

\* C4: the bridge stage of lifecycle_start of api_server.py writes bridge =
\* connected only when the device state is past unknown, connecting and error
\* -- stated for a run that no other run overlaps.
C4_BridgeAfterDevice ==
    [][\A r \in Runs :
          (/\ prog = "api_server"
           /\ run[r].pc = "bridge" /\ run'[r].pc = "done"
           /\ Alone(r))
              => /\ iris_bridge' = "connected"
                 /\ android \notin {"unknown", "connecting", "error"}]_vars

\* C5: the device state reports connected, or a later success state, only if
\* wait_for_device returned true in the run that wrote it; and it does not
\* report error when the run that wrote it last has completed with every stage
\* successful.
C5_StatusMonotone ==
    /\ android \in {"connected", "running", "running_app"}
          => (androidBy \in Runs /\ run[androidBy].probe = "ok")
    /\ \A r \in Runs :
          (androidBy = r /\ run[r].pc = "done" /\ run[r].probe = "ok"
             /\ run[r].deploy = "ok" /\ ~run[r].loadRaised)
              => android # "error"

\* C11: a frame whose text fails to parse, or whose callback raises, neither
\* ends the loop nor makes it reconnect: the step that takes in a frame leaves
\* the loop thread, the connection and keep_running as they were, whatever was
\* caught before; every frame that parses -- after any number of failed ones --
\* is handed to the callback, and one that does not parse is not.
C11_CallbackFailureContained ==
    [][arrived' = arrived + 1 =>
          /\ UNCHANGED <<thr, wsSt, ws, keep_running>>
          /\ handed' = IF lastOp' = "frame_unparsable" THEN handed ELSE handed + 1]_vars

\* C11 witness: a frame was handed to the callback on the first connection,
\* still open, after _on_message had caught an exception on an earlier frame.
C11_Witness ==
    /\ lastOp = "frame"
    /\ caughtErr
    /\ arrived >= 2
    /\ handed >= 1
    /\ Created = 1
    /\ \E t \in Threads : thr[t].pc = "running" /\ wsSt[thr[t].cur] = "open"

\* C12: one inbound frame {type: stend_event, event: E} that arrives over the
\* bridge, while the registry is complete, is processed into exactly one
\* invocation of the system-event handler of each loaded unit that has one, in
\* registry order, and exactly one webhook trigger, whose event name is E.
C12_SystemEventEndToEnd ==
    [][(/\ lastOp' = "event"
        /\ LoadersIdle
        /\ lastFrame'.ok /\ ~lastFrame'.msg
        /\ lastFrame'.type = "stend_event" /\ lastFrame'.event # "none")
          => /\ inv' = Handlers(skills, "stend_event")
             /\ trigBy' = <<lastFrame'.event>>]_vars

\* C13: after any sequence of start and restart invocations of the startup
\* sequence, overlapping ones included, with no stop in between, at most one
\* bridge has a connection loop that is active (keep_running True), so that a
\* frame reaches each plugin at most once -- stated for runs in which every
\* probe and every deploy succeeded.
C13_AtMostOneLoop ==
    (\A r \in Runs : run[r].probe # "timeout" /\ run[r].deploy # "fail")
        => Cardinality(liveB) <= 1

\* the URLs one call of trigger() has attempted to deliver to so far
Attempted(k) == {trg[k].snap[j] : j \in 1..(trg[k].i - 1)}

\* C14: the URLs that receive the payload of one call of trigger() are among
\* those registered at the moment trigger() was called: no URL subscribed after
\* the call -- even before the background delivery starts -- is delivered to.
C14_SnapshotAtCall ==
    \A k \in 1..Len(trg) : Attempted(k) \subseteq trg[k].atCall

\* C15: trigger() returns to its caller before anything is sent, so no delivery
\* failure reaches the caller; its thread never dies of a failed delivery, and
\* when it ends every URL of the snapshot has been attempted, whichever of
\* them failed.
C15_FailureIsolation ==
    /\ [][lastOp' = "trigger" =>
            /\ Len(trg') = Len(trg) + 1
            /\ trg'[Len(trg')].pc = "spawned"
            /\ trg'[Len(trg')].i = 1 /\ ~trg'[Len(trg')].flight
            /\ \A k \in 1..Len(trg) : trg'[k] = trg[k]]_vars
    /\ [](\A k \in 1..Len(trg) :
            /\ trg[k].pc \in {"spawned", "loop", "done"}
            /\ trg[k].pc = "done" => Attempted(k) = Elems(trg[k].snap))

\* C15 witness: a delivery thread has ended after attempting both URLs of its
\* snapshot, the first of which failed.
C15_Witness ==
    \E k \in 1..Len(trg) :
        /\ trg[k].pc = "done"
        /\ Len(trg[k].snap) = 2
        /\ trg[k].failedAt = 1
        /\ Attempted(k) = Urls

\* C16: the deliveries of one trigger are concurrent and independent: while the
\* send to one URL of the snapshot is in flight, the send to every URL of the
\* snapshot that has not been started can start, without waiting for it to
\* complete or time out.
C16_DeliveriesConcurrent ==
    \A k \in 1..Len(trg) :
        (trg[k].pc = "loop" /\ trg[k].flight) =>
            \A j \in (trg[k].i + 1)..Len(trg[k].snap) : ENABLED PostStart(k, j)

\* C17: get(k) after put(k, v) -- with no put or delete of k in between --
\* returns v, for every string v and every JSON-serializable v, the strings
\* whose text is valid JSON ("123", "null") included.
C17_StoreRoundTrip ==
    (lastOp = "get" /\ lastVal[got.k] # NoVal) => got.v = lastVal[got.k]

\* C18: a process restart leaves the table of the persistent store as it is and
\* the shared state empty; at all times the table holds, for every key put and
\* not deleted since, what put stored for its last value, and no row for any
\* other key; a step that changes the table is a put or a delete, and a step
\* that changes the shared state is a set or a delete of it (or the restart).
C18_RestartFrame ==
    /\ [][lastOp' = "restart" =>
            /\ store' = store
            /\ \A k \in Keys : shared'[k] = NoVal]_vars
    /\ [](\A k \in Keys :
            store[k] = IF lastVal[k] = NoVal THEN Absent ELSE Encode(lastVal[k]))
    /\ [][store' # store => lastOp' \in {"put", "delete"}]_vars
    /\ [][shared' # shared => lastOp' \in {"shared_set", "shared_delete", "restart"}]_vars

\* C18 witness: the process was restarted with a key in the store and a
\* non-empty shared state; the key is still there and the shared state is empty.
C18_Witness ==
    /\ lastOp = "restart"
    /\ lostShared
    /\ \E k \in Keys : store[k] # Absent /\ store[k] = Encode(lastVal[k])
    /\ \A k \in Keys : shared[k] = NoVal

\* C20: every call of process_request returns; it makes at most max_retries + 1
\* attempts, returns at the first successful attempt with that success, and
\* otherwise returns the failure of its last attempt; with retry_on_error false
\* it makes exactly one attempt.
C20_BoundedRetry ==
    /\ [](rq.attempts <= max_retries + 1)
    /\ [](rq.pc = "returned" =>
            /\ rq.attempts >= 1
            /\ rq.result = rq.last
            /\ rq.result \in {"ok", "fail"}
            /\ (~rq.retry => rq.attempts = 1)
            /\ (rq.result = "fail" /\ rq.retry => rq.attempts = max_retries + 1))
    /\ [][(rq.pc = "loop" /\ rq'.last = "ok" /\ rq'.attempts = rq.attempts + 1)
             => rq'.pc = "returned" /\ rq'.result = "ok"]_vars
    /\ (rq.pc = "loop" ~> rq.pc = "returned")

\* C20 witness: with retrying on and max_retries = 3, a call has returned a
\* success from its fourth attempt, after three failures.
C20_Witness ==
    /\ rq.pc = "returned"
    /\ rq.retry
    /\ max_retries = 3
    /\ rq.attempts = 4
    /\ rq.result = "ok"
    /\ error_count >= 3

\* C19: setup_port_forward called again with the same arguments -- by the same
\* or by a restarted startup sequence -- leaves the forward table, the Status
\* fields, the plugin registry and the bridge as the first call left them: the
\* table has the one entry for the port and the step changes nothing else.
C19_ForwardIdempotent ==
    /\ [](fwdCalls >= 1 => fwd = <<[local |-> 3000, remote |-> 3000]>>)
    /\ [][(fwdCalls' = fwdCalls + 1 /\ fwdCalls >= 1) =>
            /\ fwd' = fwd
            /\ UNCHANGED <<iris_bridge, skills, skills_active, bridgeObj, liveB>>
            /\ (prog = "api_server" => android' = android)]_vars

\* C19 witness: the forward command has succeeded twice, the second time in a
\* restarted startup sequence after the first had completed, and the table has
\* one entry.
C19_Witness ==
    /\ fwdCalls = 2
    /\ Len(fwd) = 1
    /\ "forward" \in run[1].did /\ run[1].pc = "done"
    /\ "forward" \in run[2].did

C22_FailureSurfaced ==
    adbCall.out = "other failure" =>
        \/ adbCall.raised
        \/ adbCall.ret \notin {AdbRun("device offline").ret, AdbRun("not found").ret}

\* C23: start_iris_process returns success only if the copy succeeded, the
\* launch command succeeded and a process id was resolved.
C23_DeployStepsDistinct ==
    lastOp = "deploy" =>
        (irisCall.ret <=> (irisCall.push /\ irisCall.launch /\ irisCall.pid))

\* C24: in lifecycle_start of api_server.py a step of a later stage (port
\* forward, plugin load, bridge start) never changes the device state, whether
\* the stage fails or not, and the run goes on to the stage after it -- stated
\* for runs whose probe and deploy succeeded.
C24_LaterStagesKeepDevice ==
    [][\A r \in Runs :
          (/\ prog = "api_server"
           /\ run[r].pc \in {"forward", "load", "bridge"}
           /\ run[r].deploy = "ok"
           /\ run'[r] # run[r])
              => /\ android' = android
                 /\ (run[r].pc = "forward" => run'[r].pc = "load")
                 /\ (run[r].pc = "load" => run'[r].pc = "bridge")]_vars

\* C29: in every reachable state the device field of Status is one of unknown,
\* connecting, connected, error, and the bridge field is one of disconnected,
\* connected.
C29_StatusDomain ==
    /\ android \in {"unknown", "connecting", "connected", "error"}
    /\ iris_bridge \in {"disconnected", "connected"}

\* the name of the handler for a category
HandlerName(cat) == IF cat = "message" THEN "on_message" ELSE "on_stend_event"

\* C25: with one bridge the dispatch for a frame begins only when the dispatch
\* for the frame before it has ended, so the handlers see the events in arrival
\* order; within a frame the handlers are invoked in the order of the list
\* the dispatch iterates; and a handler is invoked only by a step of a dispatch
\* that the receive loop has begun.
C25_ArrivalOrder ==
    /\ [][evCount' = evCount + 1 => (dp.pc # "iter" /\ seen' = <<>>)]_vars
    /\ [](dp.pc = "iter" =>
            seen = Handlers(SubSeq(DispatchList, 1, dp.i - 1), dp.cat))
    /\ [][seen' # seen /\ seen' # <<>> =>
            /\ dp.pc = "iter"
            /\ lastOp' = "dispatch"
            /\ evCount' = evCount
            /\ seen' = Append(seen, DispatchList[dp.i])]_vars

\* C25 witness: the second frame is being delivered: its first handler has
\* been invoked after the dispatch of the first frame had ended, and the
\* second unit of the registry is next.
C25_Witness ==
    /\ evCount = 2
    /\ dp.pc = "iter"
    /\ skills = <<"b", "a">>
    /\ seen = <<"b">>
    /\ dp.i = 2

\* C27: SkillManager.dispatch(category, event) invokes units through the handler
\* of that category only, each unit at most once and only units that expose
\* that handler; when it ends it has invoked exactly those units of the list,
\* and has raised nothing for the units it skipped.
C27_HandlerSelection ==
    /\ [](prog = "api_server" /\ dp.pc \in {"iter", "done"} =>
            /\ \A i \in 1..Len(seen) :
                  /\ HasHandler(seen[i], dp.cat)
                  /\ HandlerCalled(seen[i], dp.cat) = HandlerName(dp.cat)
            /\ NoRepeat(seen)
            /\ ~dispatchRaised)
    /\ [][prog = "api_server" /\ dp.pc = "iter" /\ dp'.pc = "done" =>
            /\ seen' = Handlers(DispatchList, dp.cat)
            /\ \A u \in Elems(DispatchList) :
                  HasHandler(u, dp.cat) <=> u \in Elems(seen')]_vars

\* C27 witness: a message was dispatched over a registry that holds c, which
\* has a system-event handler only: c was skipped, a was invoked.
C27_Witness ==
    /\ prog = "api_server"
    /\ dp.pc = "done"
    /\ dp.cat = "message"
    /\ ~dp.own
    /\ skills = <<"c", "a">>
    /\ seen = <<"a">>

\* the units a load of the listing registers, in listing order
Found(d) ==
    SelectSeq([i \in 1..Len(d) |-> d[i]],
              LAMBDA f : FileOutcome(f) = "register")

\* C28: when a load returns, the registry holds exactly the units that load
\* found in the directory, each once, whatever earlier loads had put there;
\* and a handler invoked after the last load has returned, by a dispatch that
\* iterates the registry, belongs to a unit that load found.
C28_ReloadReplaces ==
    /\ [][\A l \in Loaders :
            (ld'[l].pc = "done" /\ ld'[l] # ld[l]) =>
                /\ skills' = [i \in 1..Len(Found(dir)) |-> SkillName(Found(dir)[i])]
                /\ skills' = ld'[l].names
                /\ NoRepeat(skills')]_vars
    /\ [][\A l \in Loaders :
            (ld[l].pc = "done" /\ Len(seen') > Len(seen) /\ ~dp.own) =>
                seen'[Len(seen')] \in Elems(ld[l].names)]_vars

\* C28 witness: a load over a directory that no longer holds b.py has returned
\* and replaced the registry <<a, b>> with <<a>>, and a later event was
\* delivered to a only.
C28_Witness ==
    /\ ld["reload"].pc = "done"
    /\ ld["reload"].old = <<"a", "b">>
    /\ skills = <<"a">>
    /\ dp.pc = "done"
    /\ ~dp.own
    /\ seen = <<"a">>
    /\ lastOp = "dispatch"

\* C26: the dispatch callback, called with the text of a frame while the
\* registry is complete: a frame with type stend_event and an event name is
\* dispatched to the system-event handlers and triggers the webhooks of that
\* event, also when it has a msg key; a frame with a msg key is dispatched as a
\* message; a frame of neither shape is dispatched to no handler and triggers
\* nothing.
C26_FrameClassification ==
    [][(lastOp' = "callback" /\ LoadersIdle /\ lastFrame'.ok) =>
         LET f == lastFrame'
             isEvent == f.type = "stend_event" /\ f.event # "none"
         IN  /\ isEvent =>
                    /\ \E i \in 1..Len(trigBy') : trigBy'[i] = f.event
                    /\ \A u \in Elems(Handlers(skills, "stend_event")) :
                          u \in Elems(inv')
             /\ (f.msg /\ ~isEvent) => inv' = Handlers(skills, "message")
             /\ (~f.msg /\ f.type # "stend_event") =>
                    (inv' = <<>> /\ trigBy' = <<>>)]_vars

\* the callers inside the with block of a method
InLock == {c \in Callers : call[c].pc \in {"body", "del", "exit"}}

\* C30: the shared state under concurrent callers. At most one caller is inside
\* a with block, and no call raises; each call takes effect at one point
\* between its entry and its return, and whenever no caller is inside a with
\* block the dict holds, per key, the value of the latest set not followed by a
\* delete; get returns that value, None when there is none; delete of an absent
\* key changes nothing; get_all returns a dict with the items at that point,
\* and an assignment to that dict leaves the shared state as it was.
C30_SharedStateAtomic ==
    /\ [](Cardinality(InLock) <= 1 /\ \A c \in Callers : ~call[c].raised)
    /\ [](InLock = {} => shared = linState)
    /\ [][\A c \in Callers :
            (call[c].pc = "body" /\ call'[c].pc # "body") =>
                /\ call[c].op = "get" =>
                      call'[c].ret = DictGet(linState, call[c].k)
                /\ (call[c].op = "delete" /\ linState[call[c].k] = NoVal) =>
                      (call'[c].pc = "exit" /\ shared' = shared)
                /\ call[c].op = "get_all" =>
                      (snap'.d = linState /\ ~snap'.alias)]_vars
    /\ [][\A c \in Callers :
            (call[c].pc = "del" /\ call'[c].pc = "exit") =>
                shared' = linState]_vars
    /\ [][lastOp' = "modify_copy" =>
            (snap' # snap /\ shared' = shared /\ linState' = linState)]_vars

\* C30 witness: t1 is inside delete of a key that holds a value, between the
\* membership test and the del, while t2 waits for the lock with a get of
\* that key; the dict an earlier get_all returned holds a key that the shared
\* state does not hold.
C30_Witness ==
    /\ call["t1"].pc = "del"
    /\ call["t1"].k = "k1"
    /\ shared["k1"] # NoVal
    /\ call["t2"].pc = "wait"
    /\ call["t2"].op = "get"
    /\ call["t2"].k = "k1"
    /\ lock = "t1"
    /\ lastOp # "modify_copy"
    /\ snap.d # shared
    /\ snap.d["k2"] # NoVal
    /\ shared["k2"] = NoVal

\* C37: in RequestHandler the error counter never exceeds the request counter,
\* and the success rate get_request_stats reports lies between 0 and 100 --
\* stated for a handler whose max_retries is the default.
C37_ErrorsWithinRequests ==
    max_retries = DefaultMaxRetries =>
        /\ error_count <= request_count
        /\ SuccessRate >= 0
        /\ SuccessRate <= 100

\* C36: the webhook registry never holds a URL twice. Subscribing a registered
\* URL changes nothing and subscribing a new one appends it; unsubscribing
\* leaves no occurrence of the URL and changes nothing for an unknown URL; the
\* list a trigger's thread copies is the registry of that moment, so it holds
\* no URL that is unsubscribed then, and the thread posts to each position of
\* its copy once: one trigger delivers to each URL at most once.
C36_NoDuplicateWebhook ==
    /\ [](NoRepeat(webhooks) /\ \A k \in 1..Len(trg) : NoRepeat(trg[k].snap))
    /\ [][(lastOp' = "add_webhook" =>
              \E u \in Urls :
                  IF u \in Elems(webhooks) THEN webhooks' = webhooks
                  ELSE webhooks' = Append(webhooks, u))
           /\ (lastOp' = "remove_webhook" =>
              \E v \in Urls :
                  IF v \notin Elems(webhooks) THEN webhooks' = webhooks
                  ELSE /\ v \notin Elems(webhooks')
                       /\ Elems(webhooks') = Elems(webhooks) \ {v})]_vars
    /\ [][\A k \in 1..Len(trg) :
            /\ (trg[k].pc = "spawned" /\ trg'[k].pc = "loop") =>
                  trg'[k].snap = webhooks
            /\ (trg[k].pc = "loop" /\ trg'[k].i # trg[k].i) =>
                  (trg[k].flight /\ trg'[k].i = trg[k].i + 1)]_vars

\* C36 witness: u1 and u2 were subscribed, a trigger was called, u1 was
\* unsubscribed before the trigger's thread copied the registry, the thread
\* posted to u2 only, and u1 was subscribed again behind u2.
C36_Witness ==
    /\ Len(trg) = 1
    /\ trg[1].pc = "done"
    /\ trg[1].atCall = {"http://u1", "http://u2"}
    /\ trg[1].snap = <<"http://u2">>
    /\ webhooks = <<"http://u2", "http://u1">>
    /\ lastOp = "add_webhook"

\* the loop threads of the bridge that have been started and have not ended
AliveLoops == {t \in ThreadSlots : thr[t].pc \notin {"none", "exited"}}

\* the loop threads inside run_forever on an open connection
OpenLoops == {t \in ThreadSlots : thr[t].pc = "running" /\ wsSt[thr[t].cur] = "open"}

\* C34: the bridge field of Status tracks the bridge: when it reports connected
\* and the bridge's first connection attempt has ended, a loop of the bridge
\* holds an open connection; and once a connection was lost or the bridge was
\* stopped the field is disconnected.
C34_BridgeFieldTracks ==
    /\ (iris_bridge = "connected" /\ \E c \in ConnIds : wsSt[c] = "closed")
          => OpenLoops # {}
    /\ (lastOp \in {"lost", "stop"}) => iris_bridge = "disconnected"

\* C35: at most one connection-loop thread of an IrisBridge is alive, whatever
\* calls of start() and stop() were made on it, so that at most one loop holds
\* an open connection and hands frames to the callback.
C35_OneLoopThread ==
    /\ Cardinality(AliveLoops) <= 1
    /\ Cardinality(OpenLoops) <= 1

\* C33: whenever no load is in progress the plugin count of Status equals the
\* number of units in the registry, after any interleaving of the loads of
\* start invocations and reload commands -- stated for loads none of which
\* raised.
C33_CountMatchesRegistry ==
    (\A l \in LoaderSlots : ld[l].pc \in {"idle", "done"})
        => skills_active = Len(skills)

\* C31: the history of ConversationManager holds at most 2 * max_history_length
\* messages after any sequence of add_user_message and set_max_history_length
\* calls.
C31_HistoryBounded == Len(conversation_history) <= 2 * max_history_length

\* C32: the response cache of ResponseGenerator holds at most 100 entries
\* whenever no call of _add_to_cache is under way.
C32_CacheBounded == CacheSize(response_cache) <= CacheLimit
====
